---------------------------- MODULE Spec2Model ----------------------------
(***************************************************************************)
(* A model of oeuvre.py (iafisher/oeuvre): the record format engine        *)
(* (parse_entry, Entry.format_for_disk, Entry.format_for_display), the     *)
(* search engine (match, filter_entries, alphabetical_key), the commands   *)
(* edit, new and reformat of the application, one call of                  *)
(* get_enclosing_locations step by step, and the parsers of field bodies   *)
(* on lines of their own.                                                  *)
(*                                                                         *)
(* A Python str is a sequence of one-character strings, so that strip,     *)
(* split, splitlines, join, startswith, replace and sorted are modelled by *)
(* what they do to the characters.  The only line break is "\n" and the    *)
(* only other white space is " ".                                          *)
(***************************************************************************)
EXTENDS Integers, Sequences, FiniteSets, TLC

VARIABLES
    pieces,     \* the lines of the text, piece by piece (names of pieces)
    text,       \* the text handed to parse_entry
    parsed,     \* the outcome of parse_entry(text)
    disk,       \* parsed.entry.format_for_disk()
    reparsed,   \* the outcome of parse_entry(disk)
    disk2,      \* reparsed.entry.format_for_disk()
    shown,      \* parsed.entry.format_for_display(verbosity=v), for each v asked for
    stage,      \* how far the pipeline above has run
    b_input,    \* the lines handed to a parser of field bodies
    b_lines,    \* the same list, which the parser pops lines from
    b_value,    \* the value the parser returned
    b_pc,       \* the parser that has run: lines (none yet), longform, list
    q_terms,    \* the search terms of the query
    q_locdb,    \* the location hierarchy of the query
    q_target,   \* the place in the collection of the entry matched
    q_outcome,  \* the outcome of match(entry, q_terms, locdb=q_locdb)
    q_found,    \* the outcome of filter_entries(entries, q_terms, locdb=q_locdb)
    q_printed,  \* the lines main_search has printed
    qstage,     \* how far the query has run
    l_locdb,    \* the hierarchy of a call of get_enclosing_locations
    l_location, \* the location of the call
    l_stack,    \* the calls of get_enclosing_locations that have not returned
    l_result,   \* the list the call has returned
    l_pc,       \* how far the call has come: call, running, returned, raised
    files,      \* the files of the directory, by path
    cmd,        \* the subcommand that runs
    args,       \* its arguments
    pc,         \* the place the program is at
    branch,     \* the code that writes the file: save, give_up, new, reformat
    a_read,     \* the entries read_entries has returned to the command
    a_entries,  \* the entries to be handled (entries of edit_entries)
    remaining_entries,  \* the entries kept for the next round of the editor
    idx,        \* the place in entries of the entry at hand
    save_count, \* the number of entries saved
    a_keywords, \* the keywords known before the session (keywords of edit_entries)
    a_text,     \* the text read from the file of the entry at hand
    new_entry,  \* the outcome of parse_entry(a_text)
    a_out,      \* the text format_for_disk has returned for the write at hand
    open_w      \* the path of the file that is open for writing

bodyVars == <<b_input, b_lines, b_value, b_pc>>
formatVars == <<pieces, text, parsed, disk, reparsed, disk2, shown, stage, bodyVars>>
lookupVars == <<l_locdb, l_location, l_stack, l_result, l_pc>>
queryVars == <<q_terms, q_locdb, q_target, q_outcome, q_found, q_printed, qstage, lookupVars>>
appVars == <<files, cmd, args, pc, branch, a_read, a_entries, remaining_entries, idx, save_count,
             a_keywords, a_text, new_entry, a_out, open_w>>
vars == <<formatVars, queryVars, appVars>>

----------------------------------------------------------------------------
(* Bounds of the model.                                                    *)

\* The number of field blocks that follow the title and type lines of a text.
MaxBlocks == 2

\* The number of lines handed to a parser of field bodies.
MaxBodyLines == 3

----------------------------------------------------------------------------
(* Python str operations.                                                  *)

NL == "\n"
SP == " "

\* The characters of the model in code-point order (str comparison).
AsciiOrder ==
    <<"\n", " ", "(", ")", "-", ".", "/", "0", "1", "2", "3", "4", "5", "6", "7", "8", "9", ":",
      "A", "L", "T", "[", "]", "_",
      "a", "b", "c", "d", "e", "f", "g", "h", "i", "k", "l", "m", "n", "o",
      "p", "q", "r", "s", "t", "u", "v", "w", "x", "y", "z">>

Ord(c) == CHOOSE i \in 1..Len(AsciiOrder) : AsciiOrder[i] = c

IsSpace(c) == c \in {SP, NL}

RECURSIVE LStrip(_)
LStrip(s) ==
    IF s # <<>> /\ IsSpace(Head(s)) THEN LStrip(Tail(s)) ELSE s

RECURSIVE RStrip(_)
RStrip(s) ==
    IF s # <<>> /\ IsSpace(s[Len(s)]) THEN RStrip(SubSeq(s, 1, Len(s) - 1)) ELSE s

\* str.strip()
Strip(s) == RStrip(LStrip(s))

RECURSIVE LStripNL(_)
LStripNL(s) ==
    IF s # <<>> /\ Head(s) = NL THEN LStripNL(Tail(s)) ELSE s

RECURSIVE RStripNL(_)
RStripNL(s) ==
    IF s # <<>> /\ s[Len(s)] = NL THEN RStripNL(SubSeq(s, 1, Len(s) - 1)) ELSE s

\* str.strip("\n")
StripNL(s) == RStripNL(LStripNL(s))

\* c in s
HasChar(s, c) == \E i \in 1..Len(s) : s[i] = c

\* s.find(c) + 1 (0 when absent)
IndexOf(s, c) ==
    IF HasChar(s, c) THEN CHOOSE i \in 1..Len(s) : s[i] = c /\ \A j \in 1..(i - 1) : s[j] # c
    ELSE 0

\* s.split(c, maxsplit=1) for a string that holds c
SplitBefore(s, c) == SubSeq(s, 1, IndexOf(s, c) - 1)
SplitAfter(s, c) == SubSeq(s, IndexOf(s, c) + 1, Len(s))

\* s.startswith(p)
StartsWith(s, p) == Len(s) >= Len(p) /\ SubSeq(s, 1, Len(p)) = p

\* s.replace(a, b) for single characters
Replace(s, a, b) == [i \in 1..Len(s) |-> IF s[i] = a THEN b ELSE s[i]]

\* The position of the first line break of s at or after position from, or
\* the position after the last character when there is none.
LineEnd(s, from) ==
    IF \E i \in from..Len(s) : s[i] = NL
    THEN CHOOSE i \in from..Len(s) : s[i] = NL /\ \A j \in from..(i - 1) : s[j] # NL
    ELSE Len(s) + 1

RECURSIVE SplitLinesFrom(_, _)
\* The lines of s from position from on.
SplitLinesFrom(s, from) ==
    IF from > Len(s) THEN <<>>
    ELSE <<SubSeq(s, from, LineEnd(s, from) - 1)>> \o SplitLinesFrom(s, LineEnd(s, from) + 1)

\* str.splitlines(): a final line break opens no further line
SplitLines(s) == SplitLinesFrom(s, 1)

RECURSIVE Join(_, _)
\* sep.join(parts)
Join(parts, sep) ==
    IF parts = <<>> THEN <<>>
    ELSE IF Len(parts) = 1 THEN parts[1]
    ELSE parts[1] \o sep \o Join(Tail(parts), sep)

JoinNL(parts) == Join(parts, <<NL>>)

Digits == {"0", "1", "2", "3", "4", "5", "6", "7", "8", "9"}
DigitVal(c) ==
    CASE c = "0" -> 0 [] c = "1" -> 1 [] c = "2" -> 2 [] c = "3" -> 3 [] c = "4" -> 4
      [] c = "5" -> 5 [] c = "6" -> 6 [] c = "7" -> 7 [] c = "8" -> 8 [] c = "9" -> 9

\* str.isdigit()
IsDigit(s) == s # <<>> /\ \A i \in 1..Len(s) : s[i] \in Digits

RECURSIVE ToInt(_)
\* int(s) for a string of digits
ToInt(s) ==
    IF s = <<>> THEN 0 ELSE 10 * ToInt(SubSeq(s, 1, Len(s) - 1)) + DigitVal(s[Len(s)])

DigitChar(d) ==
    CASE d = 0 -> "0" [] d = 1 -> "1" [] d = 2 -> "2" [] d = 3 -> "3" [] d = 4 -> "4"
      [] d = 5 -> "5" [] d = 6 -> "6" [] d = 7 -> "7" [] d = 8 -> "8" [] d = 9 -> "9"

RECURSIVE IntToStr(_)
\* str(n) for n >= 0
IntToStr(n) ==
    IF n < 10 THEN <<DigitChar(n)>> ELSE Append(IntToStr(n \div 10), DigitChar(n % 10))

\* a < b for str
RECURSIVE StrLess(_, _)
StrLess(a, b) ==
    IF b = <<>> THEN FALSE
    ELSE IF a = <<>> THEN TRUE
    ELSE IF Head(a) = Head(b) THEN StrLess(Tail(a), Tail(b))
    ELSE Ord(Head(a)) < Ord(Head(b))

RECURSIVE InsertSorted(_, _)
InsertSorted(sortedSeq, x) ==
    IF sortedSeq = <<>> THEN <<x>>
    ELSE IF StrLess(x, Head(sortedSeq)) THEN <<x>> \o sortedSeq
    ELSE <<Head(sortedSeq)>> \o InsertSorted(Tail(sortedSeq), x)

RECURSIVE Sorted(_)
\* sorted(strings)
Sorted(strings) ==
    IF strings = <<>> THEN <<>>
    ELSE InsertSorted(Sorted(SubSeq(strings, 1, Len(strings) - 1)), strings[Len(strings)])

----------------------------------------------------------------------------
(* Values: None, a str, an int (year) or a list of KeywordField.  Every    *)
(* value is a record of the same shape; k tells which kind it is.          *)

None == [k |-> "None", s |-> <<>>, n |-> 0, l |-> <<>>]
Unset == [k |-> "unset", s |-> <<>>, n |-> 0, l |-> <<>>]
Str(s) == [k |-> "str", s |-> s, n |-> 0, l |-> <<>>]
IntVal(n) == [k |-> "int", s |-> <<>>, n |-> n, l |-> <<>>]
List(l) == [k |-> "list", s |-> <<>>, n |-> 0, l |-> l]

\* bool(value): None, "", 0 and [] are false
Truthy(v) ==
    CASE v.k = "str" -> v.s # <<>>
      [] v.k = "int" -> v.n # 0
      [] v.k = "list" -> v.l # <<>>
      [] OTHER -> FALSE

\* str(value) of a str or an int
PyStr(v) == IF v.k = "int" THEN IntToStr(v.n) ELSE v.s

KeywordField(keyword, description) ==
    [keyword |-> keyword, description |-> description]

\* KeywordField.__str__ that forgets the description.
KeywordFieldStr_KeywordOnly(kf) == kf.keyword

\* KeywordField.__str__
KeywordFieldStr(kf) ==
    IF Truthy(kf.description) THEN kf.keyword \o <<":", " ">> \o kf.description.s
    ELSE kf.keyword

----------------------------------------------------------------------------
(* Field names.                                                            *)

N_title == <<"t", "i", "t", "l", "e">>
N_type == <<"t", "y", "p", "e">>
N_creator == <<"c", "r", "e", "a", "t", "o", "r">>
N_language == <<"l", "a", "n", "g", "u", "a", "g", "e">>
N_year == <<"y", "e", "a", "r">>
N_plot == <<"p", "l", "o", "t">>
N_summary == <<"s", "u", "m", "m", "a", "r", "y">>
N_plot_summary == N_plot \o <<"_">> \o N_summary
N_plot_dash_summary == N_plot \o <<"-">> \o N_summary
N_quotes == <<"q", "u", "o", "t", "e", "s">>
N_notes == <<"n", "o", "t", "e", "s">>
N_characters == <<"c", "h", "a", "r", "a", "c", "t", "e", "r", "s">>
N_locations == <<"l", "o", "c", "a", "t", "i", "o", "n", "s">>
N_keywords == <<"k", "e", "y", "w", "o", "r", "d", "s">>
N_settings == <<"s", "e", "t", "t", "i", "n", "g", "s">>

LongformNames == {N_plot_summary, N_quotes, N_notes}
ListNames == {N_characters, N_locations, N_keywords, N_settings}
ScalarNames == {N_title, N_type, N_creator, N_language, N_year}

\* The keyword argument of Entry.__init__ that a field name written in
\* characters stands for.
KeyOf(field) ==
    CASE field = N_title -> "title"
      [] field = N_type -> "type"
      [] field = N_creator -> "creator"
      [] field = N_language -> "language"
      [] field = N_year -> "year"
      [] field = N_plot_summary -> "plot_summary"
      [] field = N_quotes -> "quotes"
      [] field = N_notes -> "notes"
      [] field = N_characters -> "characters"
      [] field = N_locations -> "locations"
      [] field = N_keywords -> "keywords"
      [] field = N_settings -> "settings"

ScalarKeys == {"title", "type", "creator", "year", "language"}
LongformKeys == {"plot_summary", "quotes", "notes"}
ListKeys == {"characters", "locations", "keywords", "settings"}
FieldKeys == ScalarKeys \cup LongformKeys \cup ListKeys
EntryAttrs == FieldKeys \cup {"filename"}

T_book == <<"b", "o", "o", "k">>
T_film == <<"f", "i", "l", "m">>
T_television == <<"t", "e", "l", "e", "v", "i", "s", "i", "o", "n">>
T_play == <<"p", "l", "a", "y">>
T_story == <<"s", "t", "o", "r", "y">>

REQUIRED_FIELDS == {N_title, N_type}
TYPE_CHOICES == {T_book, T_film, T_television, T_play, T_story}

MAXIMUM_LENGTH == 80
INDENT == <<SP, SP>>
VERBOSITY_BRIEF == 0
VERBOSITY_FULL == 1

----------------------------------------------------------------------------
(* Errors and outcomes.                                                    *)

NoErr == [kind |-> "none", msg |-> "", names |-> {}, choices |-> {}, lineno |-> 0]

\* OeuvreError(message, lineno=lineno); names are the fields the message
\* quotes and choices the values it lists.
OeuvreError(msg, names, choices, lineno) ==
    [kind |-> "OeuvreError", msg |-> msg, names |-> names, choices |-> choices,
     lineno |-> lineno]

\* The TypeError Python raises for a call that lacks required keyword-only
\* arguments; it carries no line number.
TypeError(names) ==
    [kind |-> "TypeError", msg |-> "missing required keyword-only argument",
     names |-> names, choices |-> {}, lineno |-> 0]

\* A value returned, or an exception raised.
Returned(v) == [ok |-> TRUE, value |-> v, err |-> NoErr]
Raised(e) == [ok |-> FALSE, value |-> None, err |-> e]

\* Entry.__init__
Entry(title, type, filename, creator, year, language, plot_summary, characters, locations, keywords, settings, quotes, notes) ==
    [title |-> title, type |-> type, filename |-> filename, creator |-> creator,
     year |-> year, language |-> language, plot_summary |-> plot_summary,
     characters |-> IF Truthy(characters) THEN characters ELSE List(<<>>),
     locations |-> IF Truthy(locations) THEN locations ELSE List(<<>>),
     keywords |-> IF Truthy(keywords) THEN keywords ELSE List(<<>>),
     settings |-> IF Truthy(settings) THEN settings ELSE List(<<>>),
     quotes |-> quotes, notes |-> notes]

\* Stands where no entry was produced.
NoEntry == [a \in EntryAttrs |-> Unset]

Produced(e) == [ok |-> TRUE, entry |-> e, err |-> NoErr]
Failed(e) == [ok |-> FALSE, entry |-> NoEntry, err |-> e]

\* The fields dict of parse_entry before any line is read.
NoFields == [a \in FieldKeys |-> Unset]

\* A keyword argument that is not passed takes its default, None.
Arg(fields, key) == IF fields[key].k = "unset" THEN None ELSE fields[key]

\* Entry(**fields): title and type are required keyword-only arguments.
EntryFromFields(fields) ==
    LET missing == {key \in {"title", "type"} : fields[key].k = "unset"}
    IN  IF missing # {} THEN Failed(TypeError(missing))
        ELSE Produced(Entry(fields.title, fields.type, None, Arg(fields, "creator"),
                            Arg(fields, "year"), Arg(fields, "language"),
                            Arg(fields, "plot_summary"), Arg(fields, "characters"),
                            Arg(fields, "locations"), Arg(fields, "keywords"),
                            Arg(fields, "settings"), Arg(fields, "quotes"),
                            Arg(fields, "notes")))

----------------------------------------------------------------------------
(* The parser.  The code keeps the lines still to read as a reversed list  *)
(* of (lineno, line) pairs and pops from its end; here the same lines are  *)
(* a sequence in reading order and a pop removes its head.                 *)

\* list(enumerate(text.splitlines(), start=1))
EnumerateLines(t) ==
    LET ls == SplitLines(t) IN [i \in 1..Len(ls) |-> [lineno |-> i, line |-> ls[i]]]

\* validate_field without the check of the type against TYPE_CHOICES.
validate_field_AnyType(field, value, lineno) ==
    IF field \in REQUIRED_FIELDS /\ value = <<>>
    THEN Raised(OeuvreError("field is required", {KeyOf(field)}, {}, lineno))
    ELSE IF field = N_year /\ value # <<>>
    THEN IF ~IsDigit(value)
         THEN Raised(OeuvreError("must be an integer", {"year"}, {}, lineno))
         ELSE Returned(IntVal(ToInt(value)))
    ELSE Returned(Str(value))

\* validate_field
validate_field(field, value, lineno) ==
    IF field \in REQUIRED_FIELDS /\ value = <<>>
    THEN Raised(OeuvreError("field is required", {KeyOf(field)}, {}, lineno))
    ELSE IF field = N_type /\ value \notin TYPE_CHOICES
    THEN Raised(OeuvreError("must be one of", {"type"}, TYPE_CHOICES, lineno))
    ELSE IF field = N_year /\ value # <<>>
    THEN IF ~IsDigit(value)
         THEN Raised(OeuvreError("must be an integer", {"year"}, {}, lineno))
         ELSE Returned(IntVal(ToInt(value)))
    ELSE Returned(Str(value))

RECURSIVE LongformLoop(_, _)
LongformLoop(lines, paragraphs) ==
    IF lines = <<>> THEN [value |-> JoinNL(paragraphs), lines |-> lines]
    ELSE LET line == Head(lines).line
         IN  IF line = <<>> THEN LongformLoop(Tail(lines), paragraphs)
             ELSE IF ~StartsWith(line, INDENT)
             THEN [value |-> JoinNL(paragraphs), lines |-> lines]
             ELSE LongformLoop(Tail(lines), Append(paragraphs, Strip(line)))

\* parse_longform_field: the value, and the lines it left
parse_longform_field(lines) == LongformLoop(lines, <<>>)

\* The element a line of a list field stands for.
ListElement(line) ==
    IF HasChar(line, ":")
    THEN KeywordField(Strip(SplitBefore(line, ":")), Str(Strip(SplitAfter(line, ":"))))
    ELSE KeywordField(Strip(line), None)

RECURSIVE ListLoop(_, _)
ListLoop(lines, values) ==
    IF lines = <<>> THEN [value |-> values, lines |-> lines]
    ELSE LET line == Head(lines).line
         IN  IF line = <<>> \/ ~StartsWith(line, INDENT)
             THEN [value |-> values, lines |-> lines]
             ELSE ListLoop(Tail(lines), Append(values, ListElement(line)))

RECURSIVE ListLoop_SkipsBlank(_, _)
\* The loop of parse_list_field with the blank lines popped as in
\* parse_longform_field.
ListLoop_SkipsBlank(lines, values) ==
    IF lines = <<>> THEN [value |-> values, lines |-> lines]
    ELSE LET line == Head(lines).line
         IN  IF line = <<>> THEN ListLoop_SkipsBlank(Tail(lines), values)
             ELSE IF ~StartsWith(line, INDENT)
             THEN [value |-> values, lines |-> lines]
             ELSE ListLoop_SkipsBlank(Tail(lines), Append(values, ListElement(line)))

parse_list_field_SkipsBlank(lines) == ListLoop_SkipsBlank(lines, <<>>)

\* parse_list_field: the elements, and the lines it left
parse_list_field(lines) == ListLoop(lines, <<>>)

RECURSIVE ParseLoop(_, _)
ParseLoop(lines, fields) ==
    IF lines = <<>> THEN EntryFromFields(fields)
    ELSE
      LET lineno == Head(lines).lineno
          line == Strip(Head(lines).line)
      IN
        IF line = <<>> THEN ParseLoop(Tail(lines), fields)
        ELSE IF ~HasChar(line, ":")
        THEN Failed(OeuvreError("expected field definition", {}, {}, lineno))
        ELSE
          LET field == Replace(Strip(SplitBefore(line, ":")), "-", "_")
              value == Strip(SplitAfter(line, ":"))
          IN
            IF field \in LongformNames
            THEN IF value # <<>>
                 THEN Failed(OeuvreError("trailing content", {}, {}, lineno))
                 ELSE LET r == parse_longform_field(Tail(lines))
                      IN  ParseLoop(r.lines, [fields EXCEPT ![KeyOf(field)] = Str(r.value)])
            ELSE IF field \in ListNames
            THEN IF value # <<>>
                 THEN Failed(OeuvreError("trailing content", {}, {}, lineno))
                 ELSE LET r == parse_list_field(Tail(lines))
                      IN  ParseLoop(r.lines, [fields EXCEPT ![KeyOf(field)] = List(r.value)])
            ELSE IF field \in ScalarNames
            THEN LET v == validate_field(field, value, lineno)
                 IN  IF v.ok
                     THEN ParseLoop(Tail(lines), [fields EXCEPT ![KeyOf(field)] = v.value])
                     ELSE Failed(v.err)
            ELSE Failed(OeuvreError("unknown field", {}, {}, lineno))

\* parse_entry
parse_entry(t) == ParseLoop(EnumerateLines(t), NoFields)

----------------------------------------------------------------------------
(* The serializer.  An EntryStringBuilder is its list of lines; each       *)
(* method returns the list it leaves.                                      *)

\* textwrap.fill of a text that fits in one line of MAXIMUM_LENGTH columns
\* (every value of the model does): the indent and the text, and nothing
\* at all for an empty text.
Fill(s, initial_indent) == IF s = <<>> THEN <<>> ELSE initial_indent \o s

\* EntryStringBuilder.field
BuilderField(lines, display, field, value) ==
    IF Truthy(value) THEN Append(lines, field \o <<":", SP>> \o value.s)
    ELSE IF ~display THEN Append(lines, field \o <<":">>)
    ELSE lines

RECURSIVE LongformParagraphs(_, _, _, _)
LongformParagraphs(lines, display, paragraphs, i) ==
    IF i > Len(paragraphs) THEN lines
    ELSE LET sep == IF i # 1 THEN Append(lines, <<>>) ELSE lines
             out == IF display THEN Fill(paragraphs[i], INDENT) ELSE INDENT \o paragraphs[i]
         IN  LongformParagraphs(Append(sep, out), display, paragraphs, i + 1)

\* EntryStringBuilder.longform_field that takes no account of the verbosity.
BuilderLongformField_NeverBrief(lines, display, verbosity, field, value) ==
    IF ~Truthy(value)
    THEN IF ~display THEN lines \o <<field \o <<":">>, <<>>>> ELSE lines
    ELSE Append(LongformParagraphs(Append(lines, field \o <<":">>), display,
                                   SplitLines(value.s), 1), <<>>)

\* EntryStringBuilder.longform_field
BuilderLongformField(lines, display, verbosity, field, value) ==
    IF ~Truthy(value)
    THEN IF ~display THEN lines \o <<field \o <<":">>, <<>>>> ELSE lines
    ELSE IF verbosity = VERBOSITY_BRIEF
    THEN Append(lines, field \o <<":", SP, "<", "h", "i", "d", "d", "e", "n", ">">>)
    ELSE Append(LongformParagraphs(Append(lines, field \o <<":">>), display,
                                   SplitLines(value.s), 1), <<>>)

\* The lines of the elements of a list field.
ListLines(display, stringvalues) ==
    [i \in 1..Len(stringvalues) |->
        IF display THEN Fill(stringvalues[i], INDENT) ELSE INDENT \o stringvalues[i]]

\* EntryStringBuilder.list_field that adds the header of an empty list
\* whether or not the text is for display.
BuilderListField_HeaderOnDisplay(lines, display, field, values, alphabetical) ==
    IF values = <<>>
    THEN lines \o <<field \o <<":">>, <<>>>>
    ELSE LET strs == [i \in 1..Len(values) |-> KeywordFieldStr(values[i])]
             stringvalues == IF alphabetical THEN Sorted(strs) ELSE strs
         IN  (Append(lines, field \o <<":">>) \o ListLines(display, stringvalues)) \o <<<<>>>>

\* EntryStringBuilder.list_field that sorts no list.
BuilderListField_InsertionOrder(lines, display, field, values, alphabetical) ==
    IF values = <<>>
    THEN IF ~display THEN lines \o <<field \o <<":">>, <<>>>> ELSE lines
    ELSE LET strs == [i \in 1..Len(values) |-> KeywordFieldStr(values[i])]
         IN  (Append(lines, field \o <<":">>) \o ListLines(display, strs)) \o <<<<>>>>

\* EntryStringBuilder.list_field
BuilderListField(lines, display, field, values, alphabetical) ==
    IF values = <<>>
    THEN IF ~display THEN lines \o <<field \o <<":">>, <<>>>> ELSE lines
    ELSE LET strs == [i \in 1..Len(values) |-> KeywordFieldStr(values[i])]
             stringvalues == IF alphabetical THEN Sorted(strs) ELSE strs
         IN  (Append(lines, field \o <<":">>) \o ListLines(display, stringvalues)) \o <<<<>>>>

\* EntryStringBuilder.build
Build(lines) == StripNL(JoinNL(lines))

\* The argument _format passes for the year.
YearArg(e) == IF e.year.k # "None" THEN Str(PyStr(e.year)) ELSE None

\* Entry._format that adds quotes before notes.
Format_QuotesBeforeNotes(e, display, verbosity) ==
    LET l1 == BuilderField(<<>>, display, N_title, e.title)
        l2 == BuilderField(l1, display, N_creator, e.creator)
        l3 == BuilderField(l2, display, N_type, e.type)
        l4 == BuilderField(l3, display, N_year, YearArg(e))
        l5 == BuilderField(l4, display, N_language, e.language)
        l6 == BuilderLongformField(l5, display, verbosity, N_plot_dash_summary, e.plot_summary)
        l7 == BuilderListField(l6, display, N_characters, e.characters.l, FALSE)
        l8 == BuilderListField(l7, display, N_locations, e.locations.l, FALSE)
        l9 == BuilderListField(l8, display, N_keywords, e.keywords.l, TRUE)
        l10 == BuilderListField(l9, display, N_settings, e.settings.l, TRUE)
        l11 == BuilderLongformField(l10, display, verbosity, N_quotes, e.quotes)
        l12 == BuilderLongformField(l11, display, verbosity, N_notes, e.notes)
    IN  Build(l12)

\* Entry._format
Format(e, display, verbosity) ==
    LET l1 == BuilderField(<<>>, display, N_title, e.title)
        l2 == BuilderField(l1, display, N_creator, e.creator)
        l3 == BuilderField(l2, display, N_type, e.type)
        l4 == BuilderField(l3, display, N_year, YearArg(e))
        l5 == BuilderField(l4, display, N_language, e.language)
        l6 == BuilderLongformField(l5, display, verbosity, N_plot_dash_summary, e.plot_summary)
        l7 == BuilderListField(l6, display, N_characters, e.characters.l, FALSE)
        l8 == BuilderListField(l7, display, N_locations, e.locations.l, FALSE)
        l9 == BuilderListField(l8, display, N_keywords, e.keywords.l, TRUE)
        l10 == BuilderListField(l9, display, N_settings, e.settings.l, TRUE)
        l11 == BuilderLongformField(l10, display, verbosity, N_notes, e.notes)
        l12 == BuilderLongformField(l11, display, verbosity, N_quotes, e.quotes)
    IN  Build(l12)

\* Entry.format_for_disk
format_for_disk(e) == Format(e, FALSE, VERBOSITY_FULL)

\* Entry.format_for_display
format_for_display(e, verbosity) == Format(e, TRUE, verbosity)

----------------------------------------------------------------------------
(* The search engine.                                                      *)

\* str.lower() on the letters of the model
LowerChar(c) ==
    CASE c = "T" -> "t" [] c = "E" -> "e" [] c = "A" -> "a" [] c = "L" -> "l" [] OTHER -> c
Lower(s) == [i \in 1..Len(s) |-> LowerChar(s[i])]

\* sub in s
Contains(sub, s) ==
    \E i \in 1..(Len(s) + 1) :
        i + Len(sub) - 1 <= Len(s) /\ SubSeq(s, i, i + Len(sub) - 1) = sub

N_location == <<"l", "o", "c", "a", "t", "i", "o", "n">>
N_filename == <<"f", "i", "l", "e", "n", "a", "m", "e">>
N__format == <<"_", "f", "o", "r", "m", "a", "t">>

\* The names getattr finds on an Entry that are not set by __init__: its
\* methods (of which the model knows _format).
MethodNames == {N__format}

\* A bound method: true as a condition, and its str is its repr without the
\* address of the object.
Method == [k |-> "method", s |-> <<"<", "b", "o", "u", "n", "d", " ", "m", "e", "t", "h", "o", "d", " ", "E", "n", "t", "r", "y", ".", "_", "f", "o", "r", "m", "a", "t", " ", "o", "f", " ", "<", "o", "e", "u", "v", "r", "e", ".", "E", "n", "t", "r", "y", " ", "o", "b", "j", "e", "c", "t", ">", ">">>, n |-> 0, l |-> <<>>]

\* The attribute of Entry that a name written in characters stands for.
AttrOf(name) == IF name = N_filename THEN "filename" ELSE KeyOf(name)

AttrNames == ScalarNames \cup LongformNames \cup ListNames \cup {N_filename}

AttributeError == [kind |-> "AttributeError", msg |-> "object has no attribute",
                   names |-> {}, choices |-> {}, lineno |-> 0]

\* assert isinstance(value, list) on another value
AssertionError == [kind |-> "AssertionError", msg |-> "", names |-> {}, choices |-> {},
                   lineno |-> 0]

\* Python's answer to a recursion that does not end.
RecursionError == [kind |-> "RecursionError", msg |-> "maximum recursion depth exceeded",
                   names |-> {}, choices |-> {}, lineno |-> 0]

\* getattr(entry, name)
GetAttr(entry, name) ==
    IF name \in AttrNames THEN Returned(entry[AttrOf(name)])
    ELSE IF name \in MethodNames THEN Returned(Method)
    ELSE Raised(AttributeError)

\* A list of matches returned, or an exception raised.
Matches(ms) == [ok |-> TRUE, matches |-> ms, err |-> NoErr]
MatchRaised(e) == [ok |-> FALSE, matches |-> <<>>, err |-> e]

\* One description of a match: f"{field}: matched {how} ({what})".
MatchText(field, how, what) == [field |-> field, how |-> how, what |-> what]

\* split_term: the field name (which may be empty) and the bare term
split_term(term) ==
    IF HasChar(term, ":")
    THEN [field |-> SplitBefore(term, ":"), term |-> SplitAfter(term, ":")]
    ELSE [field |-> <<>>, term |-> term]

\* A location hierarchy (locations.json): the keys of the dict, and the
\* list of enclosing locations of each key.
LocDb(keys, parents) == [keys |-> keys, parents |-> parents]

\* The list found when the recursion of get_enclosing_locations may nest
\* depth calls more; a chain of calls longer than the number of keys passes
\* one key twice and so never ends: Python ends it with RecursionError.
RECURSIVE EnclosingWithin(_, _, _)
RECURSIVE IndirectWithin(_, _, _, _)
IndirectWithin(locdb, direct, i, depth) ==
    IF i > Len(direct) THEN [ok |-> TRUE, list |-> <<>>]
    ELSE LET first == EnclosingWithin(locdb, direct[i], depth)
             rest == IndirectWithin(locdb, direct, i + 1, depth)
         IN  IF ~first.ok \/ ~rest.ok THEN [ok |-> FALSE, list |-> <<>>]
             ELSE [ok |-> TRUE, list |-> first.list \o rest.list]

EnclosingWithin(locdb, location, depth) ==
    IF location \in locdb.keys
    THEN IF depth = 0 THEN [ok |-> FALSE, list |-> <<>>]
         ELSE LET direct_enclosing == locdb.parents[location]
                  indirect_enclosing == IndirectWithin(locdb, direct_enclosing, 1, depth - 1)
              IN  IF ~indirect_enclosing.ok THEN [ok |-> FALSE, list |-> <<>>]
                  ELSE [ok |-> TRUE, list |-> direct_enclosing \o indirect_enclosing.list]
    ELSE [ok |-> TRUE, list |-> <<>>]

\* get_enclosing_locations only direct: without the recursive calls.
get_enclosing_locations_DirectOnly(locdb, location) ==
    IF location \in locdb.keys
    THEN [ok |-> TRUE, list |-> locdb.parents[location]]
    ELSE [ok |-> TRUE, list |-> <<>>]

\* get_enclosing_locations; ok is FALSE when it raises RecursionError.
get_enclosing_locations(locdb, location) ==
    EnclosingWithin(locdb, location, Cardinality(locdb.keys))

InList(x, list) == \E i \in 1..Len(list) : list[i] = x

RECURSIVE LocationLoop(_, _, _, _)
LocationLoop(locations, i, search_term, locdb) ==
    IF i > Len(locations) THEN Matches(<<>>)
    ELSE IF locations[i].keyword = search_term
    THEN Matches(<<MatchText(N_location, "", locations[i].keyword)>>)
    ELSE LET enclosing == get_enclosing_locations(locdb, locations[i].keyword)
         IN  IF ~enclosing.ok THEN MatchRaised(RecursionError)
             ELSE IF InList(search_term, enclosing.list)
             THEN Matches(<<MatchText(N_location, "", locations[i].keyword)>>)
             ELSE LocationLoop(locations, i + 1, search_term, locdb)

\* match_location
match_location(locations, search_term, locdb) ==
    LocationLoop(locations, 1, search_term, locdb)

RECURSIVE KeywordMatches(_, _, _, _)
\* The matches of the elements of a list field from the i-th on.
KeywordMatches(field, value, i, search_term) ==
    IF i > Len(value) THEN <<>>
    ELSE (IF Contains(Lower(search_term), Lower(value[i].keyword))
          THEN <<MatchText(field, "keyword", value[i].keyword)>>
          ELSE <<>>) \o KeywordMatches(field, value, i + 1, search_term)

\* match_field without the return of [] for a value that is false.
match_field_NoEmptyCheck(field, value, search_term, locdb) ==
    IF field = N_locations
    THEN IF value.k = "list" THEN match_location(value.l, search_term, locdb)
         ELSE MatchRaised(AssertionError)
    ELSE IF value.k = "list"
    THEN Matches(KeywordMatches(field, value.l, 1, search_term))
    ELSE IF Contains(Lower(search_term), Lower(PyStr(value)))
    THEN Matches(<<MatchText(field, "text", PyStr(value))>>)
    ELSE Matches(<<>>)

\* match_field; field is the name in characters
match_field(field, value, search_term, locdb) ==
    IF ~(Truthy(value) \/ value.k = "method") THEN Matches(<<>>)
    ELSE IF field = N_locations
    THEN IF value.k = "list" THEN match_location(value.l, search_term, locdb)
         ELSE MatchRaised(AssertionError)
    ELSE IF value.k = "list"
    THEN Matches(KeywordMatches(field, value.l, 1, search_term))
    ELSE IF Contains(Lower(search_term), Lower(PyStr(value)))
    THEN Matches(<<MatchText(field, "text", PyStr(value))>>)
    ELSE Matches(<<>>)

\* The fields of a search that looks into the type of the entry as well.
BareFields_WithType ==
    <<N_filename, N_title, N_creator, N_characters, N_locations, N_keywords, N_settings,
      N_type>>

\* The fields and the filename that a term without a field name is tested
\* against, in the order of the calls.
BareFields ==
    <<N_filename, N_title, N_creator, N_characters, N_locations, N_keywords, N_settings>>

RECURSIVE BareMatches(_, _, _, _, _)
\* The matches of fields[i..] for a term without a field name.
BareMatches(entry, fields, i, search_term, locdb) ==
    IF i > Len(fields) THEN Matches(<<>>)
    ELSE LET first == match_field(fields[i], entry[AttrOf(fields[i])], search_term, locdb)
         IN  IF ~first.ok THEN first
             ELSE LET rest == BareMatches(entry, fields, i + 1, search_term, locdb)
                  IN  IF ~rest.ok THEN rest ELSE Matches(first.matches \o rest.matches)

\* What one search term adds to the matches.
TermMatches(entry, search_term, locdb) ==
    LET st == split_term(search_term)
    IN  IF st.field # <<>>
        THEN LET attr == GetAttr(entry, st.field)
             IN  IF ~attr.ok THEN MatchRaised(attr.err)
                 ELSE match_field(st.field, attr.value, st.term, locdb)
        ELSE BareMatches(entry, BareFields, 1, search_term, locdb)

RECURSIVE MatchLoop(_, _, _, _, _)
MatchLoop(entry, search_terms, i, locdb, matches) ==
    IF i > Len(search_terms) THEN Matches(matches)
    ELSE LET added == TermMatches(entry, search_terms[i], locdb)
         IN  IF ~added.ok THEN added
             ELSE IF added.matches = <<>> THEN Matches(<<>>)
             ELSE MatchLoop(entry, search_terms, i + 1, locdb, matches \o added.matches)

RECURSIVE MatchLoop_NoEarlyReturn(_, _, _, _, _)
MatchLoop_NoEarlyReturn(entry, search_terms, i, locdb, matches) ==
    IF i > Len(search_terms) THEN Matches(matches)
    ELSE LET added == TermMatches(entry, search_terms[i], locdb)
         IN  IF ~added.ok THEN added
             ELSE MatchLoop_NoEarlyReturn(entry, search_terms, i + 1, locdb,
                                          matches \o added.matches)

\* match that goes on to the next term when a term has matched nothing.
match_NoEarlyReturn(entry, search_terms, locdb) ==
    MatchLoop_NoEarlyReturn(entry, search_terms, 1, locdb, <<>>)

\* match
match(entry, search_terms, locdb) == MatchLoop(entry, search_terms, 1, locdb, <<>>)

\* A list of entries found, or an exception raised.
Found(pairs) == [ok |-> TRUE, pairs |-> pairs, err |-> NoErr]
FilterRaised(e) == [ok |-> FALSE, pairs |-> <<>>, err |-> e]

RECURSIVE FilterLoop(_, _, _, _, _)
FilterLoop(entries, i, search_terms, locdb, ret) ==
    IF i > Len(entries) THEN Found(ret)
    ELSE LET matches == match(entries[i], search_terms, locdb)
         IN  IF ~matches.ok THEN FilterRaised(matches.err)
             ELSE IF matches.matches # <<>>
             THEN FilterLoop(entries, i + 1, search_terms, locdb,
                             Append(ret, [entry |-> entries[i], matches |-> matches.matches]))
             ELSE FilterLoop(entries, i + 1, search_terms, locdb, ret)

\* Application.filter_entries
filter_entries(entries, search_terms, locdb) ==
    FilterLoop(entries, 1, search_terms, locdb, <<>>)

\* The character ESC and the codes of the colors.
ESC == "ESC"
COLOR_BLUE == <<"9", "4">>
COLOR_RESET == <<"0">>

\* _colored and blue; no_color is the global _NO_COLOR.
Colored(s, color, no_color) ==
    IF ~no_color
    THEN <<ESC, "[">> \o color \o <<"m">> \o s \o <<ESC, "[">> \o COLOR_RESET \o <<"m">>
    ELSE s
blue(s, no_color) == Colored(s, COLOR_BLUE, no_color)

\* Entry.format_title_for_display
format_title_for_display(e, color, no_color) ==
    LET title == IF color THEN blue(e.title.s, no_color) ELSE e.title.s
        creator_suffix ==
            IF Truthy(e.creator) THEN <<SP, "(">> \o e.creator.s \o <<")">> ELSE <<>>
        filename_suffix ==
            IF Truthy(e.filename) THEN <<SP, "[">> \o e.filename.s \o <<"]">> ELSE <<>>
    IN  (title \o creator_suffix) \o filename_suffix

\* Entry.__str__
EntryStr(e) == format_title_for_display(e, FALSE, FALSE)

\* alphabetical_key that removes every leading article.
RECURSIVE StripArticles(_)
StripArticles(name) ==
    IF StartsWith(name, <<"T", "h", "e", SP>>) THEN StripArticles(SubSeq(name, 5, Len(name)))
    ELSE IF StartsWith(name, <<"L", "e", SP>>) \/ StartsWith(name, <<"L", "a", SP>>)
    THEN StripArticles(SubSeq(name, 4, Len(name)))
    ELSE name
alphabetical_key_EveryArticle(match_pair) == StripArticles(EntryStr(match_pair.entry))

\* alphabetical_key
alphabetical_key(match_pair) ==
    LET name == EntryStr(match_pair.entry)
    IN  IF StartsWith(name, <<"T", "h", "e", SP>>) THEN SubSeq(name, 5, Len(name))
        ELSE IF StartsWith(name, <<"L", "e", SP>>) \/ StartsWith(name, <<"L", "a", SP>>)
        THEN SubSeq(name, 4, Len(name))
        ELSE name

RECURSIVE InsertByKey(_, _)
InsertByKey(sortedPairs, x) ==
    IF sortedPairs = <<>> THEN <<x>>
    ELSE IF StrLess(alphabetical_key(x), alphabetical_key(Head(sortedPairs)))
    THEN <<x>> \o sortedPairs
    ELSE <<Head(sortedPairs)>> \o InsertByKey(Tail(sortedPairs), x)

RECURSIVE SortedByKey(_)
\* sorted(pairs, key=alphabetical_key): pairs with the same key keep their
\* order.
SortedByKey(pairs) ==
    IF pairs = <<>> THEN <<>>
    ELSE InsertByKey(SortedByKey(SubSeq(pairs, 1, Len(pairs) - 1)), pairs[Len(pairs)])

----------------------------------------------------------------------------
(* The application: the files of the directory and what the commands do    *)
(* with them.                                                              *)

\* A path that is no file and a file that has its text.
NoFile == [exists |-> FALSE, text |-> <<>>]
File(t) == [exists |-> TRUE, text |-> t]

\* No path: no file is open for writing.
NoPath == <<>>

\* collect_keywords
collect_keywords(es) ==
    UNION {{es[i].keywords.l[j].keyword : j \in 1..Len(es[i].keywords.l)} : i \in 1..Len(es)}

\* What read_entries comes to: the list of entries, the exit of error(), or
\* an exception that nothing catches.
ReadOk(es) == [kind |-> "ok", entries |-> es, err |-> NoErr]
ReadFailed(kind, e) == [kind |-> kind, entries |-> <<>>, err |-> e]

\* The directory, under the directory of the entries, that read_entries
\* leaves out.
EditingPrefix == <<"e", "d", "i", "t", "i", "n", "g", "/">>

RECURSIVE ReadLoop(_, _, _, _, _)
\* The loop of read_entries over the sorted paths of the files that exist.
ReadLoop(fs, paths, i, best_effort, es) ==
    IF i > Len(paths) THEN ReadOk(es)
    ELSE IF ~fs[paths[i]].exists THEN ReadLoop(fs, paths, i + 1, best_effort, es)
    ELSE IF StartsWith(paths[i], EditingPrefix) THEN ReadLoop(fs, paths, i + 1, best_effort, es)
    ELSE LET r == parse_entry(fs[paths[i]].text)
         IN  IF r.ok
             THEN ReadLoop(fs, paths, i + 1, best_effort,
                           Append(es, [r.entry EXCEPT !.filename = Str(paths[i])]))
             ELSE IF r.err.kind # "OeuvreError" THEN ReadFailed("crash", r.err)
             ELSE IF best_effort THEN ReadLoop(fs, paths, i + 1, best_effort, es)
             ELSE ReadFailed("exit", r.err)

\* Application.read_entries
read_entries(fs, paths, best_effort) == ReadLoop(fs, paths, 1, best_effort, <<>>)

\* blank_entry of main_new
blank_entry(path) ==
    Entry(Str(<<>>), Str(<<>>), Str(path), None, None, None, None, None, None, None, None, None, None)

\* What format_for_disk has returned: nothing yet, or a text.
NoOut == [ready |-> FALSE, text |-> <<>>]
Ready(t) == [ready |-> TRUE, text |-> t]

----------------------------------------------------------------------------
(* The texts of the model.  A text is put together from pieces: one or two *)
(* lines for the title and the type, then up to MaxBlocks field blocks.    *)

Line(name, value) == name \o <<":", SP>> \o value
Header(name) == name \o <<":">>

PieceLines(p) ==
    CASE p = "title" -> <<Line(N_title, <<"T">>)>>
      [] p = "title_empty" -> <<Header(N_title)>>
      [] p = "type" -> <<Line(N_type, T_book)>>
      [] p = "type_empty" -> <<Header(N_type)>>
      [] p = "type_bad" -> <<Line(N_type, <<"z", "i", "n", "e">>)>>
      [] p = "year" -> <<Line(N_year, <<"0", "7">>)>>
      [] p = "year0" -> <<Line(N_year, <<"0">>)>>
      [] p = "keywords" -> <<Header(N_keywords), INDENT \o <<"b">>,
                             INDENT \o <<"a", ":", SP, "d">>>>
      [] p = "characters" -> <<Header(N_characters), INDENT \o <<"b">>,
                               INDENT \o <<"a", ":">>>>
      [] p = "locations" -> <<Header(N_locations), INDENT \o <<"s">>, INDENT \o <<"m">>>>
      [] p = "characters_cont" -> <<Header(N_characters), INDENT \o <<"a", ":", SP, "d">>,
                                    INDENT \o INDENT \o <<"c">>>>
      [] p = "settings" -> <<Header(N_settings), INDENT \o <<"b">>,
                             INDENT \o <<"T", ":", SP, "d">>, INDENT \o <<"a">>>>
      [] p = "title_the" -> <<Line(N_title, <<"T", "h", "e", SP, "L", "a", SP, "a">>)>>
      [] p = "title_le" -> <<Line(N_title, <<"L", "e", SP, "b">>)>>
      [] p = "title_la" -> <<Line(N_title, <<"L", "a", SP, "a">>)>>
      [] p = "creator" -> <<Line(N_creator, <<"c">>)>>
      [] p = "plot-summary" -> <<Header(N_plot_dash_summary), INDENT \o <<"s">>>>
      [] p = "notes" -> <<Header(N_notes), INDENT \o <<"p">>, INDENT, INDENT>>
      [] p = "quotes" -> <<Header(N_quotes), INDENT \o <<"p">>, <<>>, INDENT \o <<"q">>>>

Heads ==
    {<<"title", "type">>, <<"type">>, <<"title">>, <<"title_empty", "type">>,
     <<"title", "type_empty">>, <<"title", "type_bad">>, <<"title_empty", "type_bad">>}

Blocks ==
    {"year", "year0", "plot-summary", "keywords", "settings", "characters", "characters_cont",
     "locations", "notes", "quotes", "type_bad"}

BlockSeqs == UNION {[1..n -> Blocks] : n \in 0..MaxBlocks}

RECURSIVE LinesOf(_)
\* The lines of a sequence of pieces.
LinesOf(ps) == IF ps = <<>> THEN <<>> ELSE PieceLines(Head(ps)) \o LinesOf(Tail(ps))

\* The text of a file with these lines; every line ends with a line break.
TextOf(ps) == JoinNL(LinesOf(ps)) \o <<NL>>

\* No outcome yet.
NotRun == [ok |-> FALSE, entry |-> NoEntry, err |-> NoErr]

\* The two verbosities, and the texts displayed when none has been asked for.
Verbosities == {VERBOSITY_BRIEF, VERBOSITY_FULL}
NotShown == [v \in Verbosities |-> [done |-> FALSE, text |-> <<>>]]


----------------------------------------------------------------------------
(* The collection, the search terms and the hierarchies of the model.      *)

\* The entry read_entries makes of a file: the text parsed, and the path of
\* the file as the filename.
EntryOfFile(ps, filename) ==
    [parse_entry(TextOf(ps)).entry EXCEPT !.filename = Str(filename)]

TXT == <<".", "t", "x", "t">>

\* The collection, in the order of the paths as read_entries returns it.
QueryEntries ==
    <<EntryOfFile(<<"title_le", "type">>, <<"t">> \o TXT),
      EntryOfFile(<<"title_the", "creator", "type">>, <<"u">> \o TXT),
      EntryOfFile(<<"title_la", "type">>, <<"v">> \o TXT),
      EntryOfFile(<<"title", "type", "year0">>, <<"w">> \o TXT),
      EntryOfFile(<<"title", "type", "year", "locations">>, <<"x">> \o TXT),
      EntryOfFile(<<"title", "type", "keywords", "characters">>, <<"y">> \o TXT),
      EntryOfFile(<<"title", "type">>, <<"z">> \o TXT)>>

\* The number of search terms of a query.
MaxTerms == 2

\* The number of calls of get_enclosing_locations that the interpreter lets
\* nest (sys.getrecursionlimit(), 1000 by default): more than any hierarchy
\* of the model without a cycle needs.
RecursionLimit == 4

Terms ==
    {<<"T">>, T_book, N_type \o <<":">> \o T_book,
     N_locations \o <<":", "r">>, N_locations \o <<":", "m">>, N_locations \o <<":", "e">>,
     <<"r">>, <<"x", ":", "a">>, N__format \o <<":">> \o <<"m", "e", "t", "h", "o", "d">>, <<"b">>, <<"x">>,
     N_year \o <<":", "0">>, N_year \o <<":", "7">>, N_year \o <<":", "8">>,
     N_keywords \o <<":", "d">>, N_keywords \o <<":", "A">>, N_keywords \o <<":">>,
     N_creator \o <<":">>, N_creator \o <<":", "T">>}

TermLists == UNION {[1..n -> Terms] : n \in 0..MaxTerms}

LocNames == {<<"s">>, <<"m">>, <<"r">>, <<"e">>}

\* No location has parents.
NoParents == [x \in LocNames |-> <<>>]

LocDbs ==
    {LocDb({}, NoParents),
     LocDb({<<"m">>}, [NoParents EXCEPT ![<<"m">>] = <<<<"r">>>>]),
     LocDb({<<"m">>, <<"r">>},
           [NoParents EXCEPT ![<<"m">>] = <<<<"r">>>>, ![<<"r">>] = <<<<"e">>>>]),
     LocDb({<<"m">>, <<"r">>},
           [NoParents EXCEPT ![<<"m">>] = <<<<"r">>>>, ![<<"r">>] = <<<<"m">>>>])}

\* The number of files of the directory.
MaxFiles == 2

\* The paths of the directory in sorted order, as glob and sorted give them.
AllPaths == <<<<"x">> \o TXT, <<"y">> \o TXT, <<"z">> \o TXT>>
EditingPath == EditingPrefix \o <<"x">> \o TXT
PathList == <<EditingPath>> \o SubSeq(AllPaths, 1, MaxFiles)
Paths == {PathList[i] : i \in 1..Len(PathList)}

\* The texts a file has at the start or is given in the editor: two that
\* parse, one that raises OeuvreError and one that raises TypeError.
FileTexts ==
    {TextOf(<<"title", "type", "year">>), TextOf(<<"title", "type", "keywords">>),
     TextOf(<<"title_empty", "type">>), TextOf(<<"type">>)}

\* The texts of the file under editing/: one that parses and one that
\* raises OeuvreError.
EditingTexts == {TextOf(<<"title", "type", "keywords">>), TextOf(<<"title_empty", "type">>)}

\* Stands for a file that the editor leaves as it is.
Untouched == <<"untouched">>

\* The hierarchy of the commands of the model (--strict-location).
AppLocDb == LocDb({}, NoParents)

NoArgs == [terms |-> <<>>, path |-> NoPath]

\* The arguments of a subcommand.
ArgsOf(c) ==
    CASE c = "edit" -> {[terms |-> t, path |-> NoPath] : t \in {<<>>, <<<<"T">>>>, <<<<"y">>>>}}
      [] c = "new" -> {[terms |-> <<>>, path |-> PathList[Len(PathList)]]}
      [] OTHER -> {NoArgs}

----------------------------------------------------------------------------
(* The format engine: a text is parsed, the entry is formatted for disk,   *)
(* the disk text is parsed again and formatted again (what main_reformat   *)
(* does to a file, twice); or the entry parsed is formatted for display at *)
(* one verbosity or at both (main_show).                                   *)

AppIdle ==
    /\ files = [p \in Paths |-> NoFile]
    /\ cmd = "none"
    /\ args = NoArgs
    /\ pc = "idle"
    /\ branch = "none"
    /\ a_read = <<>>
    /\ a_entries = <<>>
    /\ remaining_entries = <<>>
    /\ idx = 0
    /\ save_count = 0
    /\ a_keywords = {}
    /\ a_text = <<>>
    /\ new_entry = NotRun
    /\ a_out = NoOut
    /\ open_w = NoPath

LookupIdle ==
    /\ l_locdb = LocDb({}, NoParents)
    /\ l_location = <<>>
    /\ l_stack = <<>>
    /\ l_result = <<>>
    /\ l_pc = "idle"

QueryIdle ==
    /\ LookupIdle
    /\ q_terms = <<>>
    /\ q_locdb = LocDb({}, NoParents)
    /\ q_target = 0
    /\ q_outcome = Matches(<<>>)
    /\ q_found = Found(<<>>)
    /\ q_printed = <<>>
    /\ qstage = "idle"

\* No field-body parser is at work.
BodyIdle ==
    /\ b_input = <<>>
    /\ b_lines = <<>>
    /\ b_value = <<>>
    /\ b_pc = "idle"

Init ==
    /\ QueryIdle
    /\ AppIdle
    /\ BodyIdle
    /\ pieces \in {h \o b : h \in Heads, b \in BlockSeqs}
    /\ text = TextOf(pieces)
    /\ parsed = NotRun
    /\ disk = <<>>
    /\ reparsed = NotRun
    /\ disk2 = <<>>
    /\ shown = NotShown
    /\ stage = "text"

ParseEntry ==
    /\ stage = "text"
    /\ parsed' = parse_entry(text)
    /\ stage' = "parsed"
    /\ UNCHANGED <<pieces, text, disk, reparsed, disk2, shown>>
    /\ UNCHANGED <<queryVars, appVars, bodyVars>>

FormatForDisk ==
    /\ stage = "parsed"
    /\ parsed.ok
    /\ disk' = format_for_disk(parsed.entry)
    /\ stage' = "disk"
    /\ UNCHANGED <<pieces, text, parsed, reparsed, disk2, shown>>
    /\ UNCHANGED <<queryVars, appVars, bodyVars>>

Reparse ==
    /\ stage = "disk"
    /\ reparsed' = parse_entry(disk)
    /\ stage' = "reparsed"
    /\ UNCHANGED <<pieces, text, parsed, disk, disk2, shown>>
    /\ UNCHANGED <<queryVars, appVars, bodyVars>>

Reformat ==
    /\ stage = "reparsed"
    /\ reparsed.ok
    /\ disk2' = format_for_disk(reparsed.entry)
    /\ stage' = "done"
    /\ UNCHANGED <<pieces, text, parsed, disk, reparsed, shown>>
    /\ UNCHANGED <<queryVars, appVars, bodyVars>>

\* The entry is displayed at one verbosity (main_show, with or without
\* --brief).
FormatForDisplay(verbosity) ==
    /\ stage \in {"parsed", "shown"}
    /\ parsed.ok
    /\ ~shown[verbosity].done
    /\ shown' = [shown EXCEPT ![verbosity] =
                    [done |-> TRUE, text |-> format_for_display(parsed.entry, verbosity)]]
    /\ stage' = "shown"
    /\ UNCHANGED <<pieces, text, parsed, disk, reparsed, disk2>>
    /\ UNCHANGED <<queryVars, appVars, bodyVars>>

Next ==
    \/ ParseEntry
    \/ FormatForDisk
    \/ Reparse
    \/ Reformat
    \/ \E verbosity \in Verbosities : FormatForDisplay(verbosity)

Spec == Init /\ [][Next]_vars


----------------------------------------------------------------------------
(* The search engine at work (main_search): a query is matched against one *)
(* entry of the collection, or the collection is filtered by it and the    *)
(* entries found are printed in the order of their keys.                   *)

FormatIdle ==
    /\ BodyIdle
    /\ pieces = <<>>
    /\ text = <<>>
    /\ parsed = NotRun
    /\ disk = <<>>
    /\ reparsed = NotRun
    /\ disk2 = <<>>
    /\ shown = NotShown
    /\ stage = "idle"

InitQuery ==
    /\ FormatIdle
    /\ AppIdle
    /\ LookupIdle
    /\ q_terms \in TermLists
    /\ q_locdb \in LocDbs
    /\ q_target = 0
    /\ q_outcome = Matches(<<>>)
    /\ q_found = Found(<<>>)
    /\ q_printed = <<>>
    /\ qstage = "query"

MatchEntry(i) ==
    /\ qstage = "query"
    /\ q_outcome' = match(QueryEntries[i], q_terms, q_locdb)
    /\ q_target' = i
    /\ qstage' = "matched"
    /\ UNCHANGED <<q_terms, q_locdb, q_found, q_printed>>
    /\ UNCHANGED <<formatVars, appVars, lookupVars>>

FilterEntries ==
    /\ qstage = "query"
    /\ q_found' = filter_entries(QueryEntries, q_terms, q_locdb)
    /\ qstage' = "filtered"
    /\ UNCHANGED <<q_terms, q_locdb, q_target, q_outcome, q_printed>>
    /\ UNCHANGED <<formatVars, appVars, lookupVars>>

\* The loop of main_search (without --detailed) over the entries found, in
\* the order of their keys; the colors are on or off.
PrintSorted(no_color) ==
    /\ qstage = "filtered"
    /\ q_found.ok
    /\ LET matching == SortedByKey(q_found.pairs)
       IN  q_printed' = [i \in 1..Len(matching) |->
                            format_title_for_display(matching[i].entry, TRUE, no_color)]
    /\ qstage' = "printed"
    /\ UNCHANGED <<q_terms, q_locdb, q_target, q_outcome, q_found>>
    /\ UNCHANGED <<formatVars, appVars, lookupVars>>

NextQuery ==
    \/ \E i \in 1..Len(QueryEntries) : MatchEntry(i)
    \/ FilterEntries
    \/ \E no_color \in BOOLEAN : PrintSorted(no_color)

SpecQuery == InitQuery /\ [][NextQuery]_vars

----------------------------------------------------------------------------
(* The parsers of field bodies at work on lists of lines of their own, as  *)
(* in test_parse_longform_field and test_parse_list_field.                 *)

\* The lines: blank, indented (with and without a description, once and
\* twice), a field line, and lines of spaces and with one leading space.
BodyLines ==
    {<<>>,
     <<SP, SP, "a">>,
     <<SP, SP, "a", ":", SP, "d">>,
     <<SP, SP, SP, SP, "c">>,
     <<"t", ":", SP, "b">>,
     <<SP, SP>>,
     <<SP>>,
     <<SP, "x">>}

\* list(enumerate(lines, start=1))
Enumerate(ls) == [i \in 1..Len(ls) |-> [lineno |-> i, line |-> ls[i]]]

InitFields ==
    /\ QueryIdle
    /\ AppIdle
    /\ pieces = <<>>
    /\ text = <<>>
    /\ parsed = NotRun
    /\ disk = <<>>
    /\ reparsed = NotRun
    /\ disk2 = <<>>
    /\ shown = NotShown
    /\ stage = "idle"
    /\ \E n \in 0..MaxBodyLines : \E ls \in [1..n -> BodyLines] : b_input = Enumerate(ls)
    /\ b_lines = b_input
    /\ b_value = <<>>
    /\ b_pc = "lines"

\* value = parse_longform_field(lines)
ParseLongformField ==
    /\ b_pc = "lines"
    /\ b_value' = parse_longform_field(b_lines).value
    /\ b_lines' = parse_longform_field(b_lines).lines
    /\ b_pc' = "longform"
    /\ UNCHANGED <<pieces, text, parsed, disk, reparsed, disk2, shown, stage, b_input>>
    /\ UNCHANGED <<queryVars, appVars>>

\* value = parse_list_field(lines)
ParseListField ==
    /\ b_pc = "lines"
    /\ b_value' = parse_list_field(b_lines).value
    /\ b_lines' = parse_list_field(b_lines).lines
    /\ b_pc' = "list"
    /\ UNCHANGED <<pieces, text, parsed, disk, reparsed, disk2, shown, stage, b_input>>
    /\ UNCHANGED <<queryVars, appVars>>

NextFields ==
    \/ ParseLongformField
    \/ ParseListField

SpecFields == InitFields /\ [][NextFields]_vars

----------------------------------------------------------------------------
(* One call of get_enclosing_locations at work, call by call: a step is    *)
(* the start of a call, the return of a call, or the error that the        *)
(* interpreter raises when the calls nest deeper than its limit.           *)

\* The hierarchies of the calls: those of the queries, two parents with one
\* parent in common, a parent that is also a grandparent, a location that
\* encloses itself, and a cycle behind the second parent.
LookupDbs ==
    LocDbs \cup
    {LocDb({<<"m">>, <<"r">>, <<"e">>},
           [NoParents EXCEPT ![<<"m">>] = <<<<"r">>, <<"e">>>>, ![<<"r">>] = <<<<"s">>>>,
                             ![<<"e">>] = <<<<"s">>>>]),
     LocDb({<<"m">>, <<"r">>, <<"e">>},
           [NoParents EXCEPT ![<<"m">>] = <<<<"r">>, <<"e">>>>, ![<<"r">>] = <<<<"e">>>>,
                             ![<<"e">>] = <<<<"s">>>>]),
     LocDb({<<"m">>}, [NoParents EXCEPT ![<<"m">>] = <<<<"m">>>>]),
     LocDb({<<"s">>, <<"m">>, <<"r">>},
           [NoParents EXCEPT ![<<"s">>] = <<<<"e">>, <<"m">>>>, ![<<"m">>] = <<<<"r">>>>,
                             ![<<"r">>] = <<<<"m">>>>])}

\* A call that has just started: the place in direct_enclosing of the loop,
\* and indirect_enclosing.
Frame(location) == [location |-> location, i |-> 1, indirect_enclosing |-> <<>>]

\* The call that runs and its direct_enclosing.
Top == l_stack[Len(l_stack)]
DirectOfTop == l_locdb.parents[Top.location]

\* The call that runs returns ret: to match_location, or to the call that
\* made it, which extends indirect_enclosing and goes on with its loop.
ReturnToCaller(ret) ==
    IF Len(l_stack) = 1
    THEN /\ l_stack' = <<>>
         /\ l_result' = ret
         /\ l_pc' = "returned"
    ELSE /\ l_stack' = Append(SubSeq(l_stack, 1, Len(l_stack) - 2),
                              [l_stack[Len(l_stack) - 1] EXCEPT
                                  !.indirect_enclosing = @ \o ret, !.i = @ + 1])
         /\ UNCHANGED <<l_result, l_pc>>

InitLookup ==
    /\ FormatIdle
    /\ AppIdle
    /\ q_terms = <<>>
    /\ q_locdb = LocDb({}, NoParents)
    /\ q_target = 0
    /\ q_outcome = Matches(<<>>)
    /\ q_found = Found(<<>>)
    /\ q_printed = <<>>
    /\ qstage = "idle"
    /\ l_locdb \in LookupDbs
    /\ l_location \in LocNames
    /\ l_stack = <<>>
    /\ l_result = <<>>
    /\ l_pc = "call"

LookupFrame ==
    UNCHANGED <<formatVars, appVars, q_terms, q_locdb, q_target, q_outcome, q_found,
                q_printed, qstage, l_locdb, l_location>>

\* match_location calls get_enclosing_locations(locdb, location.keyword)
CallLookup ==
    /\ l_pc = "call"
    /\ l_stack' = <<Frame(l_location)>>
    /\ l_pc' = "running"
    /\ UNCHANGED l_result
    /\ LookupFrame

\* location is not in locdb: return []
ReturnEmpty ==
    /\ l_pc = "running"
    /\ Top.location \notin l_locdb.keys
    /\ ReturnToCaller(<<>>)
    /\ LookupFrame

\* The loop over direct_enclosing that leaves out the locations whose call
\* has not returned.
Recurse_CycleGuard ==
    /\ l_pc = "running"
    /\ Top.location \in l_locdb.keys
    /\ Top.i <= Len(DirectOfTop)
    /\ IF \E k \in 1..Len(l_stack) : l_stack[k].location = DirectOfTop[Top.i]
       THEN l_stack' = [l_stack EXCEPT ![Len(l_stack)].i = @ + 1]
       ELSE l_stack' = Append(l_stack, Frame(DirectOfTop[Top.i]))
    /\ UNCHANGED <<l_result, l_pc>>
    /\ LookupFrame

\* The loop over direct_enclosing calls get_enclosing_locations(locdb,
\* enclosing), and the interpreter allows the call.
Recurse ==
    /\ l_pc = "running"
    /\ Top.location \in l_locdb.keys
    /\ Top.i <= Len(DirectOfTop)
    /\ Len(l_stack) < RecursionLimit
    /\ l_stack' = Append(l_stack, Frame(DirectOfTop[Top.i]))
    /\ UNCHANGED <<l_result, l_pc>>
    /\ LookupFrame

\* The same call when the calls nest as deep as the interpreter allows:
\* RecursionError, which no call catches.
RaiseRecursionError ==
    /\ l_pc = "running"
    /\ Top.location \in l_locdb.keys
    /\ Top.i <= Len(DirectOfTop)
    /\ Len(l_stack) >= RecursionLimit
    /\ l_stack' = <<>>
    /\ l_pc' = "raised"
    /\ UNCHANGED l_result
    /\ LookupFrame

\* The loop is over: return direct_enclosing + indirect_enclosing
ReturnEnclosing ==
    /\ l_pc = "running"
    /\ Top.location \in l_locdb.keys
    /\ Top.i > Len(DirectOfTop)
    /\ ReturnToCaller(DirectOfTop \o Top.indirect_enclosing)
    /\ LookupFrame

NextLookup ==
    \/ CallLookup
    \/ ReturnEmpty
    \/ Recurse
    \/ RaiseRecursionError
    \/ ReturnEnclosing

\* The interpreter goes on as long as there is a step to take.
SpecLookup == InitLookup /\ [][NextLookup]_vars /\ WF_vars(NextLookup)

----------------------------------------------------------------------------
(* The application at work: one of the commands edit, new and reformat     *)
(* runs on the files of the directory.  A step is one statement or one     *)
(* call of the command; the editor and the answers to the prompts are the  *)
(* inputs.                                                                 *)

\* The entry at hand, the path of its file, and the entry whose text is
\* written: the new entry when the edited text is saved, otherwise the
\* entry at hand (old_entry, blank_entry, entry).
AtHand == a_entries[idx]
Dest == AtHand.filename.s
Subject == IF branch = "save" THEN new_entry.entry ELSE AtHand

InitApp ==
    /\ FormatIdle
    /\ QueryIdle
    /\ files \in [Paths -> {NoFile} \cup {File(t) : t \in FileTexts}]
    /\ files[EditingPath] \in {NoFile} \cup {File(t) : t \in EditingTexts}
    /\ \E c \in {"edit", "new", "reformat"} : cmd = c /\ args \in ArgsOf(c)
    /\ pc = "start"
    /\ branch = "none"
    /\ a_read = <<>>
    /\ a_entries = <<>>
    /\ remaining_entries = <<>>
    /\ idx = 0
    /\ save_count = 0
    /\ a_keywords = {}
    /\ a_text = <<>>
    /\ new_entry = NotRun
    /\ a_out = NoOut
    /\ open_w = NoPath

\* main_edit up to the call of edit_entries
MainEdit ==
    /\ pc = "start" /\ cmd = "edit"
    /\ LET r == read_entries(files, PathList, FALSE)
           matching == filter_entries(r.entries, args.terms, AppLocDb)
       IN  /\ a_read' = r.entries
           /\ IF r.kind # "ok"
              THEN pc' = r.kind /\ UNCHANGED <<a_entries, a_keywords, idx>>
              ELSE IF ~matching.ok
              THEN pc' = "crash" /\ UNCHANGED <<a_entries, a_keywords, idx>>
              ELSE IF matching.pairs = <<>>
              THEN pc' = "exit" /\ UNCHANGED <<a_entries, a_keywords, idx>>
              ELSE /\ a_entries' = [i \in 1..Len(matching.pairs) |-> matching.pairs[i].entry]
                   /\ a_keywords' = collect_keywords(r.entries)
                   /\ idx' = 1
                   /\ pc' = "editor"
    /\ UNCHANGED <<files, cmd, args, branch, remaining_entries, save_count, a_text,
                   new_entry, a_out, open_w>>
    /\ UNCHANGED <<formatVars, queryVars>>

\* main_new up to the call of format_for_disk
MainNew ==
    /\ pc = "start" /\ cmd = "new"
    /\ IF files[args.path].exists
       THEN pc' = "exit" /\ UNCHANGED <<a_read, a_entries, a_keywords, idx, branch>>
       ELSE LET r == read_entries(files, PathList, TRUE)
            IN  /\ a_read' = r.entries
                /\ IF r.kind # "ok"
                   THEN pc' = r.kind /\ UNCHANGED <<a_entries, a_keywords, idx, branch>>
                   ELSE /\ a_keywords' = collect_keywords(r.entries)
                        /\ a_entries' = <<blank_entry(args.path)>>
                        /\ idx' = 1
                        /\ branch' = "new"
                        /\ pc' = "format"
    /\ UNCHANGED <<files, cmd, args, remaining_entries, save_count, a_text, new_entry, a_out,
                   open_w>>
    /\ UNCHANGED <<formatVars, queryVars>>

\* main_reformat up to the first call of format_for_disk
MainReformat(answer) ==
    /\ pc = "start" /\ cmd = "reformat"
    /\ IF ~answer
       THEN pc' = "exit" /\ UNCHANGED <<a_read, a_entries, idx, branch>>
       ELSE LET r == read_entries(files, PathList, FALSE)
            IN  /\ a_read' = r.entries
                /\ IF r.kind # "ok"
                   THEN pc' = r.kind /\ UNCHANGED <<a_entries, idx, branch>>
                   ELSE IF r.entries = <<>>
                   THEN pc' = "done" /\ UNCHANGED <<a_entries, idx, branch>>
                   ELSE /\ a_entries' = r.entries
                        /\ idx' = 1
                        /\ branch' = "reformat"
                        /\ pc' = "format"
    /\ UNCHANGED <<files, cmd, args, remaining_entries, save_count, a_keywords, a_text,
                   new_entry, a_out, open_w>>
    /\ UNCHANGED <<formatVars, queryVars>>

\* subprocess.run([editor] + paths): the editor fails, or it leaves each
\* file of the session as it is or with another text.
Editor ==
    /\ pc = "editor"
    /\ \/ /\ pc' = "exit"
          /\ UNCHANGED <<files, idx, remaining_entries>>
       \/ /\ \E edits \in [{a_entries[i].filename.s : i \in 1..Len(a_entries)}
                              -> {Untouched} \cup FileTexts] :
                 files' = [p \in Paths |->
                              IF p \in DOMAIN edits /\ edits[p] # Untouched
                              THEN File(edits[p]) ELSE files[p]]
          /\ idx' = 1
          /\ remaining_entries' = <<>>
          /\ pc' = "read"
    /\ UNCHANGED <<cmd, args, branch, a_entries, save_count, a_keywords, a_text, new_entry,
                   a_out, open_w>>
    /\ UNCHANGED <<formatVars, queryVars, a_read>>

\* text = f.read(); new_entry = parse_entry(text)
ReadAndParse ==
    /\ pc = "read"
    /\ a_text' = files[Dest].text
    /\ LET r == parse_entry(files[Dest].text)
       IN  /\ new_entry' = r
           /\ pc' = IF r.ok THEN "keywords"
                    ELSE IF r.err.kind = "OeuvreError" THEN "try_again"
                    ELSE "crash"
    /\ UNCHANGED <<files, cmd, args, branch, a_entries, remaining_entries, idx, save_count,
                   a_keywords, a_out, open_w>>
    /\ UNCHANGED <<formatVars, queryVars, a_read>>

\* The end of the body of the loop over entries: on to the next entry, or
\* entries = remaining_entries and on to the editor, or return save_count.
NextEntry(remaining) ==
    IF idx < Len(a_entries)
    THEN /\ idx' = idx + 1
         /\ remaining_entries' = remaining
         /\ a_entries' = a_entries
         /\ pc' = "read"
    ELSE /\ idx' = 1
         /\ remaining_entries' = <<>>
         /\ a_entries' = remaining
         /\ pc' = IF remaining = <<>> THEN "return" ELSE "editor"

\* confirm("Try again? ") that does not keep the entry for the next round.
TryAgain_EntryNotKept(answer) ==
    /\ pc = "try_again"
    /\ IF answer
       THEN NextEntry(remaining_entries) /\ UNCHANGED branch
       ELSE /\ pc' = "format"
            /\ branch' = "give_up"
            /\ UNCHANGED <<a_entries, remaining_entries, idx>>
    /\ UNCHANGED <<files, cmd, args, save_count, a_keywords, a_text, new_entry, a_out, open_w>>
    /\ UNCHANGED <<formatVars, queryVars, a_read>>

\* confirm("Try again? ") after the OeuvreError of the edited text
TryAgain(answer) ==
    /\ pc = "try_again"
    /\ IF answer
       THEN NextEntry(Append(remaining_entries, AtHand)) /\ UNCHANGED branch
       ELSE /\ pc' = "format"
            /\ branch' = "give_up"
            /\ UNCHANGED <<a_entries, remaining_entries, idx>>
    /\ UNCHANGED <<files, cmd, args, save_count, a_keywords, a_text, new_entry, a_out, open_w>>
    /\ UNCHANGED <<formatVars, queryVars, a_read>>

\* The new keywords of the edited text and confirm("Keep? ")
KeepKeywords(answer) ==
    /\ pc = "keywords"
    /\ LET all_keywords == collect_keywords(<<new_entry.entry>>)
           new_keywords == all_keywords \ a_keywords
       IN  IF new_keywords # {} /\ ~answer
           THEN NextEntry(Append(remaining_entries, AtHand)) /\ UNCHANGED branch
           ELSE /\ pc' = "format"
                /\ branch' = "save"
                /\ UNCHANGED <<a_entries, remaining_entries, idx>>
    /\ UNCHANGED <<files, cmd, args, save_count, a_keywords, a_text, new_entry, a_out, open_w>>
    /\ UNCHANGED <<formatVars, queryVars, a_read>>

\* The statement that is to open the file is reached with no text computed.
FormatEntry_NotYet ==
    /\ pc = "format"
    /\ pc' = "open"
    /\ UNCHANGED <<files, cmd, args, branch, a_entries, remaining_entries, idx, save_count,
                   a_keywords, a_text, new_entry, a_out, open_w>>
    /\ UNCHANGED <<formatVars, queryVars, a_read>>

\* text = entry.format_for_disk()
FormatEntry ==
    /\ pc = "format"
    /\ a_out' = Ready(format_for_disk(Subject))
    /\ pc' = "open"
    /\ UNCHANGED <<files, cmd, args, branch, a_entries, remaining_entries, idx, save_count,
                   a_keywords, a_text, new_entry, open_w>>
    /\ UNCHANGED <<formatVars, queryVars, a_read>>

\* open(path, "w"): the file is there and empty
OpenForWriting ==
    /\ pc = "open"
    /\ files' = [files EXCEPT ![Dest] = File(<<>>)]
    /\ open_w' = Dest
    /\ pc' = "write"
    /\ UNCHANGED <<cmd, args, branch, a_entries, remaining_entries, idx, save_count,
                   a_keywords, a_text, new_entry, a_out>>
    /\ UNCHANGED <<formatVars, queryVars, a_read>>

\* f.write(text)
WriteText ==
    /\ pc = "write"
    /\ files' = [files EXCEPT ![open_w] = File(files[open_w].text \o a_out.text)]
    /\ pc' = "newline"
    /\ UNCHANGED <<cmd, args, branch, a_entries, remaining_entries, idx, save_count,
                   a_keywords, a_text, new_entry, a_out, open_w>>
    /\ UNCHANGED <<formatVars, queryVars, a_read>>

\* The end of the write that counts the entry written back after the user
\* gave up as saved.
WriteNewline_GiveUpCounted ==
    /\ pc = "newline"
    /\ files' = [files EXCEPT ![open_w] = File(files[open_w].text \o <<NL>>)]
    /\ open_w' = NoPath
    /\ a_out' = NoOut
    /\ CASE branch \in {"save", "give_up"} ->
              save_count' = save_count + 1 /\ NextEntry(remaining_entries)
         [] branch = "new" ->
              /\ pc' = "editor"
              /\ UNCHANGED <<a_entries, remaining_entries, idx, save_count>>
         [] OTHER ->
              /\ pc' = IF idx < Len(a_entries) THEN "format" ELSE "done"
              /\ idx' = IF idx < Len(a_entries) THEN idx + 1 ELSE idx
              /\ UNCHANGED <<a_entries, remaining_entries, save_count>>
    /\ UNCHANGED <<cmd, args, branch, a_keywords, a_text, new_entry>>
    /\ UNCHANGED <<formatVars, queryVars, a_read>>

\* f.write("\n"), the end of the with block, and the statements up to the
\* next call: save_count += 1 and the next entry after a save, the next
\* entry after the user gave up, edit_entries([blank_entry], keywords) in
\* main_new, the next entry of main_reformat.
WriteNewline ==
    /\ pc = "newline"
    /\ files' = [files EXCEPT ![open_w] = File(files[open_w].text \o <<NL>>)]
    /\ open_w' = NoPath
    /\ a_out' = NoOut
    /\ CASE branch = "save" ->
              save_count' = save_count + 1 /\ NextEntry(remaining_entries)
         [] branch = "give_up" ->
              save_count' = save_count /\ NextEntry(remaining_entries)
         [] branch = "new" ->
              /\ pc' = "editor"
              /\ UNCHANGED <<a_entries, remaining_entries, idx, save_count>>
         [] OTHER ->
              /\ pc' = IF idx < Len(a_entries) THEN "format" ELSE "done"
              /\ idx' = IF idx < Len(a_entries) THEN idx + 1 ELSE idx
              /\ UNCHANGED <<a_entries, remaining_entries, save_count>>
    /\ UNCHANGED <<cmd, args, branch, a_keywords, a_text, new_entry>>
    /\ UNCHANGED <<formatVars, queryVars, a_read>>

\* edit_entries returns save_count; main_new removes the file it made when
\* nothing was saved.
Return ==
    /\ pc = "return"
    /\ files' = IF cmd = "new" /\ save_count = 0
                THEN [files EXCEPT ![args.path] = NoFile] ELSE files
    /\ pc' = "done"
    /\ UNCHANGED <<cmd, args, branch, a_entries, remaining_entries, idx, save_count,
                   a_keywords, a_text, new_entry, a_out, open_w>>
    /\ UNCHANGED <<formatVars, queryVars, a_read>>

NextApp ==
    \/ MainEdit
    \/ MainNew
    \/ \E answer \in BOOLEAN : MainReformat(answer)
    \/ Editor
    \/ ReadAndParse
    \/ \E answer \in BOOLEAN : TryAgain(answer)
    \/ \E answer \in BOOLEAN : KeepKeywords(answer)
    \/ FormatEntry
    \/ OpenForWriting
    \/ WriteText
    \/ WriteNewline
    \/ Return

SpecApp == InitApp /\ [][NextApp]_vars

----------------------------------------------------------------------------
(* Properties of the format engine.                                        *)

\* A field is present when it holds a number or a non-empty value: None,
\* "" and [] all mean that the field is absent.
Present(v) == v.k = "int" \/ Truthy(v)

\* The same presence, and the same value when present.
SameValue(a, b) == (Present(a) <=> Present(b)) /\ (Present(a) => a = b)

SameElement(x, y) ==
    x.keyword = y.keyword /\ SameValue(x.description, y.description)

\* The same elements in the same order.
SameList(a, b) ==
    Len(a) = Len(b) /\ \A i \in 1..Len(a) : SameElement(a[i], b[i])

\* The same elements, each as often, in any order.
SameBag(a, b) ==
    /\ Len(a) = Len(b)
    /\ \E f \in [1..Len(a) -> 1..Len(a)] :
          /\ \A i, j \in 1..Len(a) : f[i] = f[j] => i = j
          /\ \A i \in 1..Len(a) : SameElement(a[i], b[f[i]])

\* The string forms of the elements never descend.
Ascending(a) ==
    \A i \in 1..Len(a) : \A j \in (i + 1)..Len(a) :
        ~StrLess(KeywordFieldStr(a[j]), KeywordFieldStr(a[i]))

\* A longform value without its final line break, if it ends with one.
WithoutFinalBreak(v) ==
    IF v.k = "str" /\ v.s # <<>> /\ v.s[Len(v.s)] = NL
    THEN Str(SubSeq(v.s, 1, Len(v.s) - 1))
    ELSE v

FormatForDiskIdempotent ==
    /\ stage = "reparsed" => reparsed.ok
    /\ stage = "done" => disk2 = disk

\* The pieces of a text as a set.
PieceSet(ps) == {ps[i] : i \in 1..Len(ps)}

\* The required fields to which the text gives no value: the line is absent
\* or its value is empty.
MissingRequired(ps) ==
    (IF "title" \in PieceSet(ps) THEN {} ELSE {"title"})
      \cup (IF PieceSet(ps) \cap {"type", "type_bad"} = {} THEN {"type"} ELSE {})

\* C8: a text whose only defect is that a required field is missing makes
\* parse_entry fail with an OeuvreError whose message names a missing field.
RequiredFieldMissingRaisesOeuvreError ==
    (stage = "parsed" /\ MissingRequired(pieces) # {} /\ "type_bad" \notin PieceSet(pieces)) =>
        /\ ~parsed.ok
        /\ parsed.err.kind = "OeuvreError"
        /\ parsed.err.names \cap MissingRequired(pieces) # {}

\* The number of lines of the first n pieces.
RECURSIVE LinesBefore(_, _)
LinesBefore(ps, n) ==
    IF n = 0 THEN 0 ELSE LinesBefore(ps, n - 1) + Len(PieceLines(ps[n]))

\* The place among the pieces of the first type line with a value that is
\* not empty and not one of TYPE_CHOICES.
FirstBadType(ps) ==
    CHOOSE i \in 1..Len(ps) : ps[i] = "type_bad" /\ \A j \in 1..(i - 1) : ps[j] # "type_bad"

\* The error of C9: an OeuvreError at the line of the type field that lists
\* every allowed value.
IsTypeChoicesError(ps, outcome) ==
    /\ ~outcome.ok
    /\ outcome.err.kind = "OeuvreError"
    /\ outcome.err.lineno = LinesBefore(ps, FirstBadType(ps) - 1) + 1
    /\ outcome.err.names = {"type"}
    /\ outcome.err.choices = {T_book, T_film, T_television, T_play, T_story}

\* C9 as stated: a type line with a value outside the allowed set makes
\* parse_entry fail with the error of that line, listing the allowed values.
BadTypeRaisesChoicesError ==
    (stage = "parsed" /\ "type_bad" \in PieceSet(pieces)) =>
        IsTypeChoicesError(pieces, parsed)

\* C9 as amended: a type line with a non-empty value outside the allowed set
\* makes parse_entry fail and produce no entry; when no line before it is in
\* error, the OeuvreError carries the number of that line and lists every
\* allowed value.
BadTypeRaisesChoicesErrorUnlessEarlierError ==
    (stage = "parsed" /\ "type_bad" \in PieceSet(pieces)) =>
        /\ ~parsed.ok
        /\ parsed.entry = NoEntry
        /\ (\A j \in 1..(FirstBadType(pieces) - 1) :
               pieces[j] \notin {"title_empty", "type_empty"})
             => IsTypeChoicesError(pieces, parsed)

\* A text whose fourth or later line is the offending type line, after a
\* valid type line, has been parsed.
BadTypeWitness ==
    /\ stage = "parsed"
    /\ "type_bad" \in PieceSet(pieces)
    /\ "type" \in PieceSet(pieces)
    /\ parsed.err.msg = "must be one of"
    /\ parsed.err.lineno >= 4


\* The lines of a text that open a field: not blank and not indented.
IsFieldLine(line) == line # <<>> /\ ~StartsWith(line, INDENT)
FieldLinesOf(t) == SelectSeq(SplitLines(t), IsFieldLine)

\* The names of the fields of a text in the order of their lines.
FieldOrderOf(t) ==
    LET ls == FieldLinesOf(t) IN [i \in 1..Len(ls) |-> SplitBefore(ls[i], ":")]

\* The order in which the serializer adds the fields.
SerializerOrder ==
    <<N_title, N_creator, N_type, N_year, N_language, N_plot_dash_summary, N_characters,
      N_locations, N_keywords, N_settings, N_notes, N_quotes>>

\* The field that a piece of a text gives.
FieldOfPiece(p) ==
    CASE p \in {"title", "title_empty", "title_the", "title_la", "title_le"} -> "title"
      [] p \in {"type", "type_empty", "type_bad"} -> "type"
      [] p \in {"year", "year0"} -> "year"
      [] p \in {"characters", "characters_cont"} -> "characters"
      [] OTHER -> p

\* The orders of n pieces that exchange two neighbours; every order is made
\* of such exchanges.
Exchanges(n) ==
    {[k \in 1..n |-> IF k = i THEN i + 1 ELSE IF k = i + 1 THEN i ELSE k] : i \in 1..(n - 1)}

\* The ways to put n pieces in another order: every order of up to five
\* pieces, and the exchanges of two neighbours beyond that.  The pieces in that
\* order.
Orders(n) ==
    IF n <= 5
    THEN {f \in [1..n -> 1..n] : \A i, j \in 1..n : f[i] = f[j] => i = j}
    ELSE Exchanges(n)
InOrder(ps, f) == [i \in 1..Len(ps) |-> ps[f[i]]]

\* An order that keeps the pieces of one field in the order they have.
KeepsOrderWithinField(ps, f) ==
    \A i, j \in 1..Len(ps) :
        (i < j /\ FieldOfPiece(ps[f[i]]) = FieldOfPiece(ps[f[j]])) => f[i] < f[j]

\* The text of the pieces in another order parses, and to an entry with the
\* same disk text.
SameDiskInOrder(ps, f) ==
    LET r == parse_entry(TextOf(InOrder(ps, f)))
    IN  r.ok /\ format_for_disk(r.entry) = disk

\* C13 as stated: the serializer emits the fields in one fixed order, and
\* two texts with the same field lines in different orders parse to entries
\* with the same format_for_disk output.
FieldOrderIsFixed ==
    stage = "disk" =>
        /\ FieldOrderOf(disk) = SerializerOrder
        /\ \A f \in Orders(Len(pieces)) : SameDiskInOrder(pieces, f)

\* C13 as amended: the serializer emits the fields in one fixed order, and
\* two texts with the same field lines in different orders parse to entries
\* with the same format_for_disk output when the lines of a field that is
\* given more than once come in the same order in both: of the lines of one
\* field the last one is kept.
FieldOrderIsFixedUpToRepeatedFields ==
    stage = "disk" =>
        /\ FieldOrderOf(disk) = SerializerOrder
        /\ \A f \in Orders(Len(pieces)) :
               KeepsOrderWithinField(pieces, f) => SameDiskInOrder(pieces, f)

\* A text that gives keywords before year, and type before title in
\* another order, has been parsed and formatted.
FieldOrderWitness ==
    /\ stage = "disk"
    /\ Len(pieces) = 4
    /\ pieces[3] = "keywords"
    /\ pieces[4] = "year"
    /\ FieldOrderOf(text) # FieldOrderOf(disk)

\* The fields of an entry that are absent or empty, and the others in the
\* order of the serializer.
FieldValue(e, name) == e[KeyOf(Replace(name, "-", "_"))]
IsPresent(e, name) == Present(FieldValue(e, name))
PresentFields(e) == SelectSeq(SerializerOrder, LAMBDA name : IsPresent(e, name))
AbsentFields(e) ==
    {SerializerOrder[i] : i \in {j \in 1..Len(SerializerOrder) : ~IsPresent(e, SerializerOrder[j])}}

\* The lines of a text that open the field named.
HeaderLinesOf(t, name) ==
    SelectSeq(FieldLinesOf(t), LAMBDA line : SplitBefore(line, ":") = name)

\* C14: for every field that is absent or empty, the disk text has the bare
\* header line of the field, so that every disk text names the twelve
\* fields, and the text displayed at either verbosity has no line of that
\* field: the fields it names are the fields that have a value.
AbsentFieldBareOnDiskNothingOnDisplay ==
    /\ stage = "disk" =>
          /\ FieldOrderOf(disk) = SerializerOrder
          /\ \A name \in AbsentFields(parsed.entry) :
                HeaderLinesOf(disk, name) = <<Header(name)>>
    /\ \A v \in Verbosities :
          shown[v].done =>
              /\ \A name \in AbsentFields(parsed.entry) :
                    HeaderLinesOf(shown[v].text, name) = <<>>
              /\ FieldOrderOf(shown[v].text) = PresentFields(parsed.entry)

\* An entry with an empty scalar field, an empty list field and an empty
\* longform field, and a list field with elements, has been displayed at
\* both verbosities.
AbsentFieldWitness ==
    /\ \A v \in Verbosities : shown[v].done
    /\ {N_creator, N_locations, N_notes} \subseteq AbsentFields(parsed.entry)
    /\ IsPresent(parsed.entry, N_keywords)

\* The lines of a text from the line that opens the field named up to the
\* line that opens the next field.
BlockOf(t, name) ==
    LET ls == SplitLines(t)
        opens == {i \in 1..Len(ls) : IsFieldLine(ls[i]) /\ SplitBefore(ls[i], ":") = name}
        first == CHOOSE i \in opens : \A j \in opens : i <= j
        later == {j \in (first + 1)..Len(ls) : IsFieldLine(ls[j])}
        last == IF later = {} THEN Len(ls) ELSE (CHOOSE j \in later : \A k \in later : j <= k) - 1
    IN  IF opens = {} THEN <<>> ELSE SubSeq(ls, first, last)

\* The longform fields, and the line that stands for one at brief verbosity.
LongformFields == {N_plot_dash_summary, N_notes, N_quotes}
HiddenToken == <<"<", "h", "i", "d", "d", "e", "n", ">">>
HiddenLine(name) == Line(name, HiddenToken)

\* The lines of a text, as a set.
LineSet(t) == {SplitLines(t)[i] : i \in 1..Len(SplitLines(t))}

\* C15: at brief verbosity every longform field with a value is the single
\* line 'field: <hidden>', followed at once by the next field, so that no
\* line of its content is in the text; the text names the same fields as
\* the text at full verbosity and every other field has the same lines in
\* both; the disk text has no '<hidden>' and has every paragraph of the
\* value, indented.
BriefHidesLongformFields ==
    /\ (shown[VERBOSITY_BRIEF].done /\ shown[VERBOSITY_FULL].done) =>
          LET brief == shown[VERBOSITY_BRIEF].text
              full == shown[VERBOSITY_FULL].text
          IN  /\ FieldOrderOf(brief) = FieldOrderOf(full)
              /\ IsFieldLine(SplitLines(brief)[1])
              /\ \A i \in 1..Len(SerializerOrder) :
                    LET name == SerializerOrder[i]
                    IN  IF name \in LongformFields /\ IsPresent(parsed.entry, name)
                        THEN /\ BlockOf(brief, name) = <<HiddenLine(name)>>
                             /\ Len(BlockOf(full, name)) > 1
                             /\ HiddenLine(name) \notin LineSet(full)
                        ELSE BlockOf(brief, name) = BlockOf(full, name)
    /\ stage = "disk" =>
          /\ \A line \in LineSet(disk) : ~Contains(HiddenToken, line)
          /\ \A name \in LongformFields :
                IsPresent(parsed.entry, name) =>
                    LET paragraphs == SplitLines(FieldValue(parsed.entry, name).s)
                    IN  /\ BlockOf(disk, name)[1] = Header(name)
                        /\ \A k \in 1..Len(paragraphs) :
                              INDENT \o paragraphs[k] \in LineSet(disk)

\* An entry with a plot summary, which comes before other fields, and with
\* notes of two paragraphs has been displayed at both verbosities.
BriefWitness ==
    /\ shown[VERBOSITY_BRIEF].done
    /\ shown[VERBOSITY_FULL].done
    /\ IsPresent(parsed.entry, N_plot_dash_summary)
    /\ IsPresent(parsed.entry, N_quotes)
    /\ Len(SplitLines(parsed.entry.quotes.s)) > 1

\* The lines of the elements of a list field in a text: the lines of its
\* block after the header that are not blank.
ElementLinesOf(t, name) ==
    SelectSeq(Tail(BlockOf(t, name)), LAMBDA line : line # <<>>)

\* The lines that the elements of a list make in the order of the list.
LinesInOrder(values) == [i \in 1..Len(values) |-> INDENT \o KeywordFieldStr(values[i])]

\* The same lines, each as often.
SameLines(a, b) ==
    /\ Len(a) = Len(b)
    /\ \A i \in 1..Len(a) :
          Cardinality({j \in 1..Len(a) : a[j] = a[i]}) = Cardinality({j \in 1..Len(b) : b[j] = a[i]})

\* Each line before the next in the order of the characters, upper case
\* before lower case.
LinesAscending(a) == \A i \in 1..(Len(a) - 1) : ~StrLess(a[i + 1], a[i])

\* C16: in the disk text the lines of keywords and settings are the string
\* forms of the elements in ascending case-sensitive order, the lines of
\* characters and locations are the string forms of the elements in the
\* order of the list, and the entry is still the entry the parser made.
AlphabeticalFieldsSortedOthersInInsertionOrder ==
    stage = "disk" =>
        /\ \A name \in {N_keywords, N_settings} :
              IsPresent(parsed.entry, name) =>
                  /\ SameLines(ElementLinesOf(disk, name),
                               LinesInOrder(FieldValue(parsed.entry, name).l))
                  /\ LinesAscending(ElementLinesOf(disk, name))
        /\ \A name \in {N_characters, N_locations} :
              IsPresent(parsed.entry, name) =>
                  ElementLinesOf(disk, name) = LinesInOrder(FieldValue(parsed.entry, name).l)
        /\ parsed = parse_entry(text)

\* An entry whose settings are not in ascending order, one of them in upper
\* case, and whose locations are not either, has been formatted.
AlphabeticalFieldsWitness ==
    /\ stage = "disk"
    /\ Len(parsed.entry.settings.l) = 3
    /\ ~LinesAscending(LinesInOrder(parsed.entry.settings.l))
    /\ \E i \in 1..3 : parsed.entry.settings.l[i].keyword = <<"T">>
    /\ Len(parsed.entry.locations.l) = 2
    /\ ~LinesAscending(LinesInOrder(parsed.entry.locations.l))
    /\ ElementLinesOf(disk, N_settings) # LinesInOrder(parsed.entry.settings.l)

\* The piece of the text that gives the field named last, the one the
\* parser keeps; the lines of the elements it holds.
GivesField(ps, name) == {i \in 1..Len(ps) : FieldOfPiece(ps[i]) = name}
LastPieceOf(ps, name) == ps[CHOOSE i \in GivesField(ps, name) : \A j \in GivesField(ps, name) : j <= i]
IsDoublyIndented(line) == StartsWith(line, INDENT \o INDENT)
IsSinglyIndented(line) == StartsWith(line, INDENT) /\ ~IsDoublyIndented(line)
SinglyIndentedLinesOf(p) == SelectSeq(Tail(PieceLines(p)), IsSinglyIndented)

\* C18: a list field has as many elements as its block has singly-indented
\* lines, and the doubly-indented line that follows the element 'a: d' is
\* added to its description after one space.
DoublyIndentedLineContinuesElement ==
    (stage = "parsed" /\ parsed.ok) =>
        \A name \in {"characters", "locations", "keywords", "settings"} :
            GivesField(pieces, name) # {} =>
                LET p == LastPieceOf(pieces, name)
                IN  /\ Len(parsed.entry[name].l) = Len(SinglyIndentedLinesOf(p))
                    /\ p = "characters_cont" =>
                          parsed.entry[name].l[1].description = Str(<<"d", SP, "c">>)

----------------------------------------------------------------------------
(* Properties of the search engine.                                        *)

\* The outcome is a list of matches that is not empty: the entry matches.
NonEmpty(o) == o.ok /\ o.matches # <<>>

\* The outcome of matching the entry of the query against one of its terms
\* on its own.
Single(i) == match(QueryEntries[q_target], <<q_terms[i]>>, q_locdb)

\* C4: an empty list of search terms matches every entry: match reports
\* the entry as matched, and filter_entries returns every entry of the
\* collection.
EmptyTermListMatchesEveryEntry ==
    /\ (qstage = "matched" /\ q_terms = <<>>) => NonEmpty(q_outcome)
    /\ (qstage = "filtered" /\ q_terms = <<>>) =>
           /\ q_found.ok
           /\ Len(q_found.pairs) = Len(QueryEntries)
           /\ \A i \in 1..Len(QueryEntries) : q_found.pairs[i].entry = QueryEntries[i]

\* C5: search terms are joined by AND.  For a list of terms that is not
\* empty, match returns a list that is not empty if and only if every term
\* on its own matches the entry; and once the terms before a term have
\* matched and that term matches nothing, the result is the empty list,
\* whatever the other terms match.
TermsJoinedByAnd ==
    (qstage = "matched" /\ q_terms # <<>>) =>
        /\ NonEmpty(q_outcome) <=> \A i \in 1..Len(q_terms) : NonEmpty(Single(i))
        /\ \A i \in 1..Len(q_terms) :
               (/\ \A j \in 1..(i - 1) : NonEmpty(Single(j))
                /\ Single(i) = Matches(<<>>))
               => q_outcome = Matches(<<>>)

\* A query of two terms of which the first matches the entry and the second
\* does not has been answered.
TermsJoinedByAndWitness ==
    /\ qstage = "matched"
    /\ Len(q_terms) = 2
    /\ NonEmpty(Single(1))
    /\ Single(2) = Matches(<<>>)
    /\ q_outcome = Matches(<<>>)

\* The direct enclosing locations of a name: the elements of its list.
DirectParents(db, name) ==
    IF name \in db.keys
    THEN {db.parents[name][i] : i \in 1..Len(db.parents[name])}
    ELSE {}

RECURSIVE Grow(_, _, _)
\* The names reached from a set of names in at most n more steps upwards.
Grow(db, names, n) ==
    IF n = 0 THEN names
    ELSE Grow(db, names \cup UNION {DirectParents(db, x) : x \in names}, n - 1)

\* The transitive closure of the enclosing locations of a name.
Closure(db, name) == Grow(db, DirectParents(db, name), Cardinality(LocNames))

\* The term of a query of one term that is scoped to locations.
IsLocationQuery ==
    /\ qstage = "matched"
    /\ Len(q_terms) = 1
    /\ split_term(q_terms[1]).field = N_locations

\* C6: location matching is hierarchical.  Whenever the lookup of the
\* enclosing locations comes to an end, a term matches the locations of an
\* entry if and only if, for some location of the entry, the term is the
\* keyword of the location or belongs to the transitive closure of the
\* enclosing locations of that keyword; a keyword that is not in the mapping
\* has no enclosing locations, and with an empty mapping only an equal
\* keyword matches.  (A lookup that ends in RecursionError is the subject of C22.)
LocationMatchIsHierarchical ==
    (IsLocationQuery /\ q_outcome.ok) =>
        LET term == split_term(q_terms[1]).term
            locations == QueryEntries[q_target].locations.l
        IN  /\ NonEmpty(q_outcome) <=>
                 \E i \in 1..Len(locations) :
                     \/ term = locations[i].keyword
                     \/ term \in Closure(q_locdb, locations[i].keyword)
            /\ \A x \in LocNames \ q_locdb.keys : Closure(q_locdb, x) = {}
            /\ q_locdb.keys = {} =>
                 (NonEmpty(q_outcome) <=>
                     \E i \in 1..Len(locations) : term = locations[i].keyword)

\* A term has matched a location through the parent of its parent.
LocationMatchWitness ==
    /\ IsLocationQuery
    /\ NonEmpty(q_outcome)
    /\ LET term == split_term(q_terms[1]).term
           locations == QueryEntries[q_target].locations.l
       IN  /\ \A i \in 1..Len(locations) :
                  /\ term # locations[i].keyword
                  /\ term \notin DirectParents(q_locdb, locations[i].keyword)
           /\ \E i \in 1..Len(locations) : term \in Closure(q_locdb, locations[i].keyword)

\* The names of the fields of an entry.
FieldNames == ScalarNames \cup LongformNames \cup ListNames

\* C7: a term whose scope is not the name of a field is reported as the
\* error "unknown field '<scope>'" and the search is aborted.
UnknownScopeIsUnknownFieldError ==
    (/\ qstage = "matched"
     /\ \E i \in 1..Len(q_terms) :
            /\ split_term(q_terms[i]).field # <<>>
            /\ split_term(q_terms[i]).field \notin FieldNames)
    => /\ ~q_outcome.ok
       /\ q_outcome.err.kind = "OeuvreError"
       /\ q_outcome.err.msg = "unknown field"

\* The names under which a term without a field name may report a match:
\* the filename and the searchable fields (a match of locations is
\* reported as "location").
SearchableNames ==
    {N_filename, N_title, N_creator, N_characters, N_locations, N_keywords, N_settings}

\* The term of a query of one term that has no field name.
IsBareQuery ==
    /\ qstage = "matched"
    /\ Len(q_terms) = 1
    /\ ~HasChar(q_terms[1], ":")

\* C10: a term without ":" is tested against the filename and the fields
\* title, creator, characters, locations, keywords and settings, and
\* against nothing else.  Whenever match returns, the entry matches if and
\* only if one of these matches the term, and every match reported is a
\* match of one of these: none of type, year, language, plot-summary, notes
\* or quotes.
BareTermSearchesSearchableFields ==
    (IsBareQuery /\ q_outcome.ok) =>
        LET entry == QueryEntries[q_target] IN
        /\ NonEmpty(q_outcome) <=>
               \E f \in SearchableNames :
                   NonEmpty(match_field(f, entry[AttrOf(f)], q_terms[1], q_locdb))
        /\ \A i \in 1..Len(q_outcome.matches) :
               q_outcome.matches[i].field \in (SearchableNames \ {N_locations}) \cup {N_location}

\* A term without a field name has matched an entry through two of its
\* fields.
BareTermWitness ==
    /\ IsBareQuery
    /\ q_outcome.ok
    /\ \E i, j \in 1..Len(q_outcome.matches) :
           q_outcome.matches[i].field # q_outcome.matches[j].field


\* The field and the text of the i-th term of the query, and the value of
\* that field on the entry of the query.
ScopeOf(i) == split_term(q_terms[i]).field
TextOfTerm(i) == split_term(q_terms[i]).term
ScopedValue(i) == QueryEntries[q_target][AttrOf(ScopeOf(i))]

\* The lower-cased term is a substring of the lower-cased text of the value:
\* of the keyword of an element of a list, of the str of a scalar.
SubstringOfValue(term, value) ==
    IF value.k = "list"
    THEN \E j \in 1..Len(value.l) : Contains(Lower(term), Lower(value.l[j].keyword))
    ELSE Contains(Lower(term), Lower(PyStr(value)))

\* C11: for every field other than locations, a term scoped to the field
\* matches if and only if the lower-cased term is a substring of the
\* lower-cased text of the field: of the keyword of an element of a list
\* field, of the stringified value of a scalar field that has a value.
ScopedTermMatchesBySubstring ==
    (/\ qstage = "matched"
     /\ Len(q_terms) = 1
     /\ ScopeOf(1) \in FieldNames \ {N_locations}
     /\ Present(ScopedValue(1)))
    => (NonEmpty(q_outcome) <=> SubstringOfValue(TextOfTerm(1), ScopedValue(1)))

\* The i-th term of the query is scoped to a field that the entry of the
\* query does not have: None, "" or [].
ScopedToAbsent(i) ==
    /\ ScopeOf(i) \in FieldNames
    /\ ScopedValue(i).k \in {"None", "str", "list"}
    /\ ~Truthy(ScopedValue(i))

\* C12: a term scoped to a field that is absent or empty on the entry
\* (None, "" or []) does not match, whatever its text, the empty text
\* included, and match returns the empty list for the whole list of terms
\* (when no term before it has raised an exception, which ends the call
\* before the term is looked at).
TermScopedToAbsentFieldMatchesNothing ==
    qstage = "matched" =>
        \A i \in 1..Len(q_terms) :
            ScopedToAbsent(i) =>
                /\ Single(i) = Matches(<<>>)
                /\ (\A j \in 1..(i - 1) : Single(j).ok) => q_outcome = Matches(<<>>)

\* After a term that matches, a term with the empty text, scoped to a field
\* that the entry does not have, has made match return the empty list.
TermScopedToAbsentFieldWitness ==
    /\ qstage = "matched"
    /\ Len(q_terms) = 2
    /\ NonEmpty(Single(1))
    /\ ScopedToAbsent(2)
    /\ TextOfTerm(2) = <<>>
    /\ q_outcome = Matches(<<>>)

\* The text displayed for an entry: the title, the creator in parentheses
\* and the filename in brackets when it has them; without colors and with
\* the title in blue.
SuffixesOf(e) ==
    (IF Truthy(e.creator) THEN <<SP, "(">> \o e.creator.s \o <<")">> ELSE <<>>)
        \o (IF Truthy(e.filename) THEN <<SP, "[">> \o e.filename.s \o <<"]">> ELSE <<>>)
PlainTitle(e) == e.title.s \o SuffixesOf(e)
BlueTitle(e) ==
    ((<<ESC, "[", "9", "4", "m">> \o e.title.s) \o <<ESC, "[", "0", "m">>) \o SuffixesOf(e)

\* The leading articles, and the name under which an entry is sorted: the
\* text displayed, or what follows its leading article when it has one.
Articles == {<<"T", "h", "e", SP>>, <<"L", "e", SP>>, <<"L", "a", SP>>}
HasArticle(name) == \E a \in Articles : StartsWith(name, a)
SortName(e) ==
    LET name == PlainTitle(e)
    IN  IF HasArticle(name)
        THEN CHOOSE k \in {SubSeq(name, i, Len(name)) : i \in 1..Len(name)} :
                 \E a \in Articles : a \o k = name
        ELSE name

\* The entries found, and the entry that a printed line is the text of.
FoundEntries == {q_found.pairs[i].entry : i \in 1..Len(q_found.pairs)}
EntryPrinted(i) == CHOOSE e \in FoundEntries : q_printed[i] \in {PlainTitle(e), BlueTitle(e)}

\* C19: main_search prints one line for each entry found, the line is the
\* text displayed for the entry with its title as it is, the lines come in
\* ascending order of the names under which the entries are sorted, which
\* are the texts without exactly one leading article, and the entries found
\* are entries of the collection as they were.
SortKeyDropsOneLeadingArticle ==
    qstage = "printed" =>
        /\ Len(q_printed) = Len(q_found.pairs)
        /\ \A e \in FoundEntries :
              /\ \E i \in 1..Len(q_printed) : q_printed[i] \in {PlainTitle(e), BlueTitle(e)}
              /\ \E j \in 1..Len(QueryEntries) : QueryEntries[j] = e
        /\ \A i \in 1..Len(q_printed) :
              \E e \in FoundEntries : q_printed[i] \in {PlainTitle(e), BlueTitle(e)}
        /\ \A i \in 1..Len(q_printed) : \A k \in (i + 1)..Len(q_printed) :
              ~StrLess(SortName(EntryPrinted(k)), SortName(EntryPrinted(i)))

\* 'The La a' has been printed in blue before 'T' and 'La a' after it.
SortKeyWitness ==
    /\ qstage = "printed"
    /\ \E i, j, k \in 1..Len(q_printed) :
          /\ i < j /\ j < k
          /\ EntryPrinted(i).title.s = <<"T", "h", "e", SP, "L", "a", SP, "a">>
          /\ q_printed[i] = BlueTitle(EntryPrinted(i))
          /\ EntryPrinted(j).title.s = <<"T">>
          /\ EntryPrinted(k).title.s = <<"L", "a", SP, "a">>

----------------------------------------------------------------------------
(* Properties of the application.                                          *)

\* A step of the program itself, not of the editor, changes a file.
ProgramWrites == files' # files /\ pc # "editor"

\* C3: wherever a file of an entry is written again (the save and the
\* give-up of edit_entries, main_reformat, main_new), format_for_disk has
\* returned the whole text before the file is opened for writing: a file is
\* open for writing only while the text of the entry written is held, the
\* program changes a file only from then on (or when main_new removes its
\* file), and a step that ends in an error leaves every file as it was and
\* no file open.
TextFormattedBeforeFileOpened ==
    /\ [](open_w # NoPath =>
            /\ a_out = Ready(format_for_disk(Subject))
            /\ open_w = Dest)
    /\ [][ProgramWrites => (a_out.ready \/ pc = "return")]_vars
    /\ [][pc' \in {"crash", "exit"} => (files' = files /\ open_w' = NoPath)]_vars

\* The file of an edited entry has been opened for writing, and is empty,
\* with the text of the new entry in hand.
TextFormattedWitness ==
    /\ pc = "write"
    /\ branch = "save"
    /\ open_w = Dest
    /\ files[open_w] = File(<<>>)
    /\ a_out.ready
    /\ a_out.text # <<>>

\* The files that read_entries is to read: those that exist and are not
\* under editing/, in the order of their paths.  The entries of those that
\* parse, each with the path of its file as the filename.
FilesToRead(fs) ==
    SelectSeq(PathList, LAMBDA p : fs[p].exists /\ ~StartsWith(p, EditingPrefix))
FilesThatParse(fs) == SelectSeq(FilesToRead(fs), LAMBDA p : parse_entry(fs[p].text).ok)
EntriesOfFiles(fs) ==
    [i \in 1..Len(FilesThatParse(fs)) |->
        [parse_entry(fs[FilesThatParse(fs)[i]].text).entry
            EXCEPT !.filename = Str(FilesThatParse(fs)[i])]]

\* The step in which main_new reads the entries (best_effort=True), and the
\* step in which main_edit does (best_effort=False).
NewReads == cmd = "new" /\ pc = "start" /\ pc' # "start" /\ ~files[args.path].exists
EditReads == cmd = "edit" /\ pc = "start" /\ pc' # "start"

\* C17: with best_effort the read returns the entries of the files that
\* parse, in the order of the paths and with the path as the filename, and
\* the command goes on; without it the read returns the entries when every
\* file parses and the command ends otherwise; no file under editing/ is
\* read in either mode.
BestEffortReadSkipsFilesInError ==
    /\ [][NewReads => (pc' = "format" /\ a_read' = EntriesOfFiles(files))]_vars
    /\ [][EditReads =>
            IF FilesThatParse(files) = FilesToRead(files)
            THEN a_read' = EntriesOfFiles(files)
            ELSE pc' \in {"exit", "crash"} /\ a_read' = <<>>]_vars

\* The steps of the claim: the user declines to try again, the write that
\* follows comes to its end, the user accepts to try again.
Declines == pc = "try_again" /\ pc' = "format"
GiveUpWritten == pc = "newline" /\ branch = "give_up" /\ pc' # "newline"
Accepts == pc = "try_again" /\ pc' # "try_again" /\ pc' # "format"

\* The entries that stay in the session after a step: those kept for the
\* next round while the round goes on, those of the next round at its end.
StaysAfter(e) ==
    IF pc' = "read" THEN InList(e, remaining_entries') ELSE InList(e, a_entries')
LastAfter ==
    IF pc' = "read" THEN remaining_entries'[Len(remaining_entries')]
    ELSE a_entries'[Len(a_entries')]

\* C20: when the user declines, the file is written with the disk text of
\* the old entry and a line break, the entry is in no later round and the
\* count of saved entries stays; when the user accepts, the file is left as
\* edited, the entry is kept, the editor opens it in the next round, and
\* the count stays.
ParseFailureWritesBackOrKeepsEntry ==
    /\ [][Declines => (branch' = "give_up" /\ save_count' = save_count
                          /\ remaining_entries' = remaining_entries)]_vars
    /\ [][GiveUpWritten =>
            /\ files' = [files EXCEPT ![Dest] = File(format_for_disk(AtHand) \o <<NL>>)]
            /\ ~StaysAfter(AtHand)
            /\ save_count' = save_count]_vars
    /\ [][Accepts =>
            /\ files' = files
            /\ files[Dest].text = a_text
            /\ pc' \in {"read", "editor"}
            /\ LastAfter = AtHand
            /\ save_count' = save_count]_vars
    /\ [][(pc' = "editor" /\ pc # "editor") =>
            \A i \in 1..Len(remaining_entries) : InList(remaining_entries[i], a_entries')]_vars

\* In one round the user has accepted to try one file again and declined
\* for another: the first is kept with its text in error, the second is
\* being written back with the disk text of its old entry.
ParseFailureWitness ==
    /\ pc = "newline"
    /\ branch = "give_up"
    /\ files[Dest].text = format_for_disk(AtHand)
    /\ files[Dest].text # a_text
    /\ Len(remaining_entries) = 1
    /\ ~parse_entry(files[remaining_entries[1].filename.s].text).ok

\* The step that ends the write of a save, and the step in which
\* edit_entries returns to main_edit or main_new.
SaveWritten == pc = "newline" /\ branch = "save" /\ pc' # "newline"
Returns == pc = "return" /\ pc' # "return"

\* The keywords of the edited text that were not known before the session.
\* C21: edit_entries returns only when no entry remains; the count grows by
\* one at a time and only at the end of the write of an edited text that
\* parsed, in its disk form, and every such write counts; the entry saved
\* is in no later round and no entry enters a session after its start, so
\* that an entry is saved at most once; the count returned is at most the
\* number of entries the session started with; main_new removes the file it
\* made when the count returned is 0 and only then, and the return changes
\* no other file.
SaveCountCountsEntriesSaved ==
    /\ [](pc = "return" => (a_entries = <<>> /\ remaining_entries = <<>>))
    /\ [][save_count' # save_count => (SaveWritten /\ save_count' = save_count + 1)]_vars
    /\ [][SaveWritten =>
            /\ save_count' = save_count + 1
            /\ new_entry = parse_entry(a_text)
            /\ new_entry.ok
            /\ files' = [files EXCEPT ![Dest] =
                            File(format_for_disk(new_entry.entry) \o <<NL>>)]
            /\ ~StaysAfter(AtHand)]_vars
    /\ [][(pc = "keywords" /\ pc' = "format") => branch' = "save"]_vars
    /\ [][(pc # "keywords" /\ pc' = "format" /\ pc # "newline") => branch' # "save"]_vars
    /\ [][pc \notin {"start", "newline"} \/ (pc = "newline" /\ branch # "new") =>
            \A i \in 1..Len(a_entries') : InList(a_entries'[i], a_entries)]_vars
    /\ [][Returns =>
            files' = IF cmd = "new" /\ save_count = 0
                     THEN [files EXCEPT ![args.path] = NoFile] ELSE files]_vars
    /\ [](pc = "done" /\ cmd = "new" => (files[args.path].exists <=> save_count > 0))
    /\ [](cmd = "edit" => save_count <= Len(a_read))
    /\ [](cmd = "new" => save_count <= 1)

\* A session of main_edit on two entries has returned with one of them
\* saved.
SaveCountWitness ==
    /\ cmd = "edit"
    /\ pc = "return"
    /\ Len(a_read) = 2
    /\ save_count = 1


----------------------------------------------------------------------------
(* The lookup of the enclosing locations, call by call.                    *)

\* The locations that enclose themselves in a hierarchy.
InCycle(db) == {x \in LocNames : x \in Closure(db, x)}

\* The call meets a cycle: the location or one of its enclosing locations
\* encloses itself.
CycleReachable ==
    ({l_location} \cup Closure(l_locdb, l_location)) \cap InCycle(l_locdb) # {}

\* The direct parents of the location of the call, in the order of the
\* hierarchy.
DirectOfCall == IF l_location \in l_locdb.keys THEN l_locdb.parents[l_location] ELSE <<>>

RECURSIVE ParentsInTurn(_, _, _)
\* The enclosing locations of each of the parents from the i-th on, one
\* parent after the other.
ParentsInTurn(db, direct, i) ==
    IF i > Len(direct) THEN <<>>
    ELSE get_enclosing_locations(db, direct[i]).list \o ParentsInTurn(db, direct, i + 1)

\* The list returned starts with the direct parents, goes on with the
\* enclosing locations of each parent in turn, names the transitive closure
\* of the parents and nothing else, and is the list that the recursion
\* computes as a whole.
ReturnsDepthFirst ==
    l_pc = "returned" =>
        /\ l_result = DirectOfCall \o ParentsInTurn(l_locdb, DirectOfCall, 1)
        /\ {l_result[i] : i \in 1..Len(l_result)} = Closure(l_locdb, l_location)
        /\ get_enclosing_locations(l_locdb, l_location) = [ok |-> TRUE, list |-> l_result]

\* C22 as stated: in a hierarchy without a cycle that the location reaches,
\* the call returns, and what it returns is the direct parents followed by
\* the enclosing locations of each parent, depth first; with such a cycle
\* the call never comes to an end, neither by a return nor by an error.
LookupNeverEndsInACycle ==
    /\ (l_pc = "call" /\ ~CycleReachable) ~> (l_pc = "returned")
    /\ []ReturnsDepthFirst
    /\ [](CycleReachable => l_pc \notin {"returned", "raised"})

\* C22: in a hierarchy without a cycle that the location reaches (and no
\* deeper than the interpreter lets calls nest), the call returns, and what
\* it returns is the direct parents followed by the enclosing locations of
\* each parent, depth first; with such a cycle the call never returns a
\* list, but it does come to an end: the calls nest until the interpreter
\* raises RecursionError, which is raised in no other case.
LookupEndsInRecursionError ==
    /\ (l_pc = "call" /\ ~CycleReachable) ~> (l_pc = "returned")
    /\ []ReturnsDepthFirst
    /\ [](CycleReachable => l_pc # "returned")
    /\ (l_pc = "call" /\ CycleReachable) ~> (l_pc = "raised")
    /\ [](l_pc = "raised" =>
            /\ CycleReachable
            /\ ~get_enclosing_locations(l_locdb, l_location).ok)

\* A call that has raised RecursionError in a cycle behind the second
\* parent of the location, after the call for the first parent has returned.
LookupRaisedWitness ==
    /\ l_pc = "raised"
    /\ CycleReachable
    /\ Len(DirectOfCall) = 2
    /\ DirectOfCall[1] \notin InCycle(l_locdb)


----------------------------------------------------------------------------
(* The parsers of field bodies and the lines that are not theirs.          *)

\* A line is blank when it is empty, and indented when it starts with the
\* indent unit.
IsBlank(l) == l.line = <<>>
IsIndented(l) == StartsWith(l.line, INDENT)

\* The place in the input of the first line for which stop holds, or the
\* place after the last line.
FirstStop(stop(_)) ==
    LET stops == {k \in 1..Len(b_input) : stop(b_input[k])}
    IN  IF stops = {} THEN Len(b_input) + 1
        ELSE CHOOSE k \in stops : \A j \in stops : k <= j

\* The lines from the k-th on, and those before it.
From(k) == SubSeq(b_input, k, Len(b_input))
Before(k) == SubSeq(b_input, 1, k - 1)

\* The lines stripped, in order.
Stripped(ls) == [i \in 1..Len(ls) |-> Strip(ls[i].line)]

\* parse_longform_field leaves the input from the first line on that is
\* neither blank nor indented, line numbers and all, and returns the
\* indented lines before it, stripped and joined by line breaks.
LongformTakesItsLines ==
    b_pc = "longform" =>
        LET k == FirstStop(LAMBDA l : ~IsBlank(l) /\ ~IsIndented(l))
        IN  /\ b_lines = From(k)
            /\ \A j \in 1..(k - 1) : IsBlank(b_input[j]) \/ IsIndented(b_input[j])
            /\ b_value = JoinNL(Stripped(SelectSeq(Before(k), IsIndented)))

\* parse_list_field leaves the input from the first line on that is blank
\* or not indented, and returns one element for each line before it.
ListTakesItsLines ==
    b_pc = "list" =>
        LET k == FirstStop(LAMBDA l : IsBlank(l) \/ ~IsIndented(l))
        IN  /\ b_lines = From(k)
            /\ \A j \in 1..(k - 1) : IsIndented(b_input[j])
            /\ Len(b_value) = k - 1
            /\ \A j \in 1..(k - 1) : b_value[j] = ListElement(b_input[j].line)

\* C23: the parsers of field bodies take only their own lines and leave
\* the rest untouched.  parse_longform_field removes every blank and every
\* indented line up to, but not including, the first line that is neither,
\* and returns the indented lines, stripped and joined by line breaks;
\* parse_list_field removes indented lines only and stops at the first
\* blank or unindented line, which stays at the head of what is left.
FieldBodyParsersTakeOnlyTheirLines ==
    /\ LongformTakesItsLines
    /\ ListTakesItsLines

\* The list parser has stopped at a blank line after one element, with a
\* field line behind the blank line: test_parse_list_field.
FieldBodyWitness ==
    /\ b_pc = "list"
    /\ Len(b_input) = 3
    /\ Len(b_value) = 1
    /\ Len(b_lines) = 2
    /\ IsBlank(b_lines[1])
    /\ ~IsBlank(b_lines[2]) /\ ~IsIndented(b_lines[2])

====
